---- MODULE Spec2Model ----
(***************************************************************************)
(* Rule engine of a-brick-code-analyzer: rule registry, configuration      *)
(* resolution (presets, extends, per-rule overrides), instance set,        *)
(* the rules' check, lint(), lint_file() and lint_files() with parser      *)
(* lookup and ignore patterns, the LintResult counters and the LintReport  *)
(* totals.                                                                 *)
(***************************************************************************)
EXTENDS Integers, Sequences, FiniteSets, TLC

VARIABLES
    registry,   \* RuleEngine._rule_classes : ordered dict rule_id -> class
    rules,      \* RuleEngine._rules        : ordered dict rule_id -> instance
    config,     \* RuleEngine._config       : <<>> (None) or <<RuleConfig>>
    last,       \* the latest configuration call, its arguments and outcome
    calls,      \* number of mutating engine calls made so far
    result,     \* <<>> or <<LintResult>>: the result of the latest lint call made
                \* since the latest configuration call (or the one being built)
    doc,        \* the configuration document handed to RuleConfig._from_dict
    report,     \* LintReport.results: the LintResults of the report being built,
                \* or of the report the latest lint_files call returned
    run,        \* the latest lint / lint_files call: what it was given, the
                \* checks it invoked, the paths it parsed, the exception raised
    unit,       \* <<>>, or <<u>>: one rule instance and one parse result handed
                \* to check on their own, and what check returned
    outcomes,   \* the caller's ParseResult objects written to since they were
                \* parsed: ordered dict file path -> current errors list
    kept        \* ordered dict file path -> what the first and the latest lint
                \* call made on that outcome since the latest configuration
                \* call returned

vars == <<registry, rules, config, last, calls, result, doc, report, run, unit,
          outcomes, kept>>

None == "None"

(***************************************************************************)
(* Bounds of the model.                                                    *)
(***************************************************************************)
MaxCalls == 5
MaxExtends == 2
MaxViolations == 4
MaxResults == 2
MaxSetup == 2
MaxLints == 2
MaxParseErrors == 2
MaxFiles == 2
MaxNodes == 2

MaxParams == 3

(***************************************************************************)
(* Python dict (insertion ordered) as a sequence of [k, v] pairs.          *)
(***************************************************************************)
EmptyDict == [x \in {} |-> 0]

Dict1(k, v) == [x \in {k} |-> v]

\* {**a, **b}
DictMerge(a, b) ==
    [k \in (DOMAIN a) \cup (DOMAIN b) |-> IF k \in DOMAIN b THEN b[k] ELSE a[k]]

OdHas(d, key) == \E i \in 1..Len(d) : d[i].k = key

OdIndex(d, key) == CHOOSE i \in 1..Len(d) : d[i].k = key

OdGet(d, key) == IF OdHas(d, key) THEN d[OdIndex(d, key)].v ELSE None

\* d[key] = val : an existing key keeps its position, a new key goes last
OdSet(d, key, val) ==
    IF OdHas(d, key)
    THEN [i \in 1..Len(d) |-> IF d[i].k = key THEN [k |-> key, v |-> val] ELSE d[i]]
    ELSE Append(d, [k |-> key, v |-> val])

\* del d[key]
OdDel(d, key) == SelectSeq(d, LAMBDA e : e.k # key)

(***************************************************************************)
(* Severity (rules/base.py) and RuleConfig.parse_severity.                 *)
(* A text is a sequence of one-character strings, so that upper() acts on  *)
(* it; a raw severity value is tagged with its Python type.                *)
(***************************************************************************)
Severities == {"OFF", "WARN", "ERROR"}

\* Severity(n)
SeverityByValue(n) ==
    CASE n = 0 -> "OFF"
      [] n = 1 -> "WARN"
      [] n = 2 -> "ERROR"
      [] OTHER -> "ValueError"

UpperChar(c) ==
    CASE c = "a" -> "A" [] c = "e" -> "E" [] c = "f" -> "F" [] c = "l" -> "L"
      [] c = "n" -> "N" [] c = "o" -> "O" [] c = "r" -> "R" [] c = "t" -> "T"
      [] c = "w" -> "W"
      [] OTHER -> c

\* str.upper()
Upper(s) == [i \in 1..Len(s) |-> UpperChar(s[i])]

\* Severity[name]
SeverityByName(s) ==
    CASE s = <<"O", "F", "F">> -> "OFF"
      [] s = <<"W", "A", "R", "N">> -> "WARN"
      [] s = <<"E", "R", "R", "O", "R">> -> "ERROR"
      [] OTHER -> "KeyError"

RawStr(s) == [t |-> "str", s |-> s, n |-> 0, e |-> None]

RawInt(n) == [t |-> "int", s |-> <<>>, n |-> n, e |-> None]

RawSev(e) == [t |-> "sev", s |-> <<>>, n |-> 0, e |-> e]

RawOther == [t |-> "other", s |-> <<>>, n |-> 0, e |-> None]

\* mutant: the name is looked up as written
parse_severity_AsWritten(value) ==
    IF value.t = "sev" THEN value.e
    ELSE IF value.t = "int" THEN SeverityByValue(value.n)
    ELSE IF value.t = "str" THEN SeverityByName(value.s)
    ELSE "WARN"

\* the result is a Severity, or the name of the exception raised
parse_severity(value) ==
    IF value.t = "sev" THEN value.e
    ELSE IF value.t = "int" THEN SeverityByValue(value.n)
    ELSE IF value.t = "str" THEN SeverityByName(Upper(value.s))
    ELSE "WARN"

IsError(x) == x \in {"KeyError", "ValueError"}

warn == RawStr(<<"w", "a", "r", "n">>)

error == RawStr(<<"e", "r", "r", "o", "r">>)

off == RawStr(<<"o", "f", "f">>)

(***************************************************************************)
(* Rule ids and the built-in presets (rules/config.py).                    *)
(***************************************************************************)
IdMaxComplexity == "complexity/max-complexity"

IdMaxFunctionLines == "complexity/max-function-lines"

IdMaxParams == "complexity/max-params"

IdFunctionNaming == "naming/function-naming"

IdClassNaming == "naming/class-naming"

IdMaxFileLines == "structure/max-file-lines"

IdMaxClasses == "structure/max-classes-per-file"

IdMaxFunctions == "structure/max-functions-per-file"

BuiltinIds ==
    {IdMaxComplexity, IdMaxFunctionLines, IdMaxParams, IdFunctionNaming,
     IdClassNaming, IdMaxFileLines, IdMaxClasses, IdMaxFunctions}

Entry(sev, opts) == [severity |-> sev, options |-> opts]

MaxOpt(n) == Dict1("max", n)

StyleOpt(s) == Dict1("style", s)

\* RuleConfig(): the dataclass defaults
EmptyConfig == [rules |-> EmptyDict, extends |-> <<>>, ignore_patterns |-> <<>>]

PresetRules(sev, c, fl, p, l, k, f) ==
    [id \in BuiltinIds |->
        CASE id = IdMaxComplexity -> Entry(sev, MaxOpt(c))
          [] id = IdMaxFunctionLines -> Entry(sev, MaxOpt(fl))
          [] id = IdMaxParams -> Entry(sev, MaxOpt(p))
          [] id = IdFunctionNaming -> Entry(sev, StyleOpt("snake_case"))
          [] id = IdClassNaming -> Entry(sev, StyleOpt("PascalCase"))
          [] id = IdMaxFileLines -> Entry(sev, MaxOpt(l))
          [] id = IdMaxClasses -> Entry(sev, MaxOpt(k))
          [] OTHER -> Entry(sev, MaxOpt(f))]

_get_recommended_config ==
    [EmptyConfig EXCEPT !.rules = PresetRules(warn, 10, 50, 5, 500, 5, 20)]

\* mutant: the strict preset leaves the class-naming rule at warn
_get_strict_config_NamingWarn ==
    [EmptyConfig EXCEPT
        !.rules = [PresetRules(error, 8, 30, 4, 300, 3, 10) EXCEPT
                      ![IdClassNaming] = Entry(warn, StyleOpt("PascalCase"))]]

_get_strict_config ==
    [EmptyConfig EXCEPT !.rules = PresetRules(error, 8, 30, 4, 300, 3, 10)]

_get_minimal_config ==
    [EmptyConfig EXCEPT !.rules = Dict1(IdMaxComplexity, Entry(error, MaxOpt(15)))]

PresetNames == {"recommended", "strict", "minimal"}

\* presets.get(name, cls())
_load_preset(name) ==
    CASE name = "recommended" -> _get_recommended_config
      [] name = "strict" -> _get_strict_config
      [] name = "minimal" -> _get_minimal_config
      [] OTHER -> EmptyConfig

\* RuleConfig.get_rule_config: self.rules.get(rule_id), as an optional value
get_rule_config(cfg, id) == IF id \in DOMAIN cfg.rules THEN <<cfg.rules[id]>> ELSE <<>>

(***************************************************************************)
(* RuleConfig._parse_rule_config and RuleConfig._from_dict.                *)
(* A raw rule value is tagged with its shape: a scalar (int or str), a     *)
(* list, a dict, or anything else.                                         *)
(***************************************************************************)
RawScalar(sev) == [form |-> "scalar", sev |-> sev, items |-> <<>>, d |-> EmptyDict]

RawList(items) == [form |-> "list", sev |-> RawOther, items |-> items, d |-> EmptyDict]

RawDict(d) == [form |-> "dict", sev |-> RawOther, items |-> <<>>, d |-> d]

RawNull == [form |-> "other", sev |-> RawOther, items |-> <<>>, d |-> EmptyDict]

_parse_rule_config(c) ==
    IF c.form = "scalar" THEN Entry(c.sev, EmptyDict)
    ELSE IF c.form = "list" THEN
        Entry(IF Len(c.items) > 0 THEN c.items[1] ELSE warn,
              IF Len(c.items) > 1 THEN c.items[2] ELSE EmptyDict)
    ELSE IF c.form = "dict" THEN
        Entry(IF "severity" \in DOMAIN c.d THEN c.d["severity"] ELSE warn,
              IF "options" \in DOMAIN c.d THEN c.d["options"] ELSE EmptyDict)
    ELSE Entry(warn, EmptyDict)

\* mutant: an earlier preset wins over a later one
RECURSIVE MergePresets_FirstWins(_, _, _)
MergePresets_FirstWins(acc, extends, i) ==
    IF i > Len(extends) THEN acc
    ELSE MergePresets_FirstWins(DictMerge(_load_preset(extends[i]).rules, acc),
                                extends, i + 1)

\* for base_config_name in extends: config.rules.update(base_config.rules)
RECURSIVE MergePresets(_, _, _)
MergePresets(acc, extends, i) ==
    IF i > Len(extends) THEN acc
    ELSE MergePresets(DictMerge(acc, _load_preset(extends[i]).rules), extends, i + 1)

\* data.get('extends', []), a str wrapped into a list
ExtendsOf(data) ==
    IF data.extends.t = "absent" THEN <<>>
    ELSE IF data.extends.t = "str" THEN <<data.extends.name>>
    ELSE data.extends.names

\* mutant: an override's options are merged into the inherited entry's options
_from_dict_MergeOptions(data) ==
    LET extends == ExtendsOf(data)
        base == MergePresets(EmptyDict, extends, 1)
        own == [id \in DOMAIN data.rules |->
                   LET parsed == _parse_rule_config(data.rules[id])
                   IN  IF id \in DOMAIN base
                       THEN Entry(parsed.severity,
                                  DictMerge(base[id].options, parsed.options))
                       ELSE parsed]
    IN  [rules |-> DictMerge(base, own),
         extends |-> extends,
         ignore_patterns |-> data.ignorePatterns]

_from_dict(data) ==
    LET extends == ExtendsOf(data)
        base == MergePresets(EmptyDict, extends, 1)
        own == [id \in DOMAIN data.rules |-> _parse_rule_config(data.rules[id])]
    IN  [rules |-> DictMerge(base, own),
         extends |-> extends,
         ignore_patterns |-> data.ignorePatterns]

ExtendsList(names) == [t |-> "list", name |-> "", names |-> names]

ExtendsStr(name) == [t |-> "str", name |-> name, names |-> <<>>]

ExtendsAbsent == [t |-> "absent", name |-> "", names |-> <<>>]

Doc(ext, rls) == [extends |-> ext, rules |-> rls, ignorePatterns |-> <<>>]

(***************************************************************************)
(* Rule classes (rules/base.py, rules/builtin).  PluginRule and            *)
(* PluginRuleV2 are add-on subclasses of NodeRule sharing one rule_id:     *)
(* they keep BaseRule's empty default options and target every node kind;  *)
(* the first one overrides default_severity with OFF.                      *)
(***************************************************************************)
IdPlugin == "custom/plugin"

IdUnknown == "unknown/rule"

\* language names, as the parsers and the rule classes write them
python == <<"p", "y", "t", "h", "o", "n">>

javascript == <<"j", "a", "v", "a", "s", "c", "r", "i", "p", "t">>

Python == <<"P", "y", "t", "h", "o", "n">>

ClassNames == {"MaxComplexityRule", "MaxFileLinesRule", "PluginRule", "PluginRuleV2"}

Class(name) ==
    CASE name = "MaxComplexityRule" ->
            [rule_id |-> IdMaxComplexity, default_severity |-> "WARN",
             default_options |-> MaxOpt(10), base |-> "NodeRule",
             target_node_types |-> {"function", "method"},
             supported_languages |-> <<>>]
      [] name = "MaxFileLinesRule" ->
            [rule_id |-> IdMaxFileLines, default_severity |-> "WARN",
             default_options |-> MaxOpt(500), base |-> "BaseRule",
             target_node_types |-> {},
             supported_languages |-> <<>>]
      [] name = "MaxFunctionLinesRule" ->
            [rule_id |-> IdMaxFunctionLines, default_severity |-> "WARN",
             default_options |-> MaxOpt(50), base |-> "NodeRule",
             target_node_types |-> {"function", "method"},
             supported_languages |-> <<>>]
      [] name = "ClassNamingRule" ->
            [rule_id |-> IdClassNaming, default_severity |-> "WARN",
             default_options |-> StyleOpt("PascalCase"), base |-> "NodeRule",
             target_node_types |-> {"class"},
             supported_languages |-> <<>>]
      [] name = "MaxParamsRule" ->
            [rule_id |-> IdMaxParams, default_severity |-> "WARN",
             default_options |-> MaxOpt(5), base |-> "NodeRule",
             target_node_types |-> {"function", "method"},
             supported_languages |-> <<>>]
      [] name = "FunctionNamingRule" ->
            [rule_id |-> IdFunctionNaming, default_severity |-> "WARN",
             default_options |-> StyleOpt("snake_case"), base |-> "NodeRule",
             target_node_types |-> {"function", "method"},
             supported_languages |-> <<>>]
      [] name = "MaxClassesPerFileRule" ->
            [rule_id |-> IdMaxClasses, default_severity |-> "WARN",
             default_options |-> MaxOpt(5), base |-> "BaseRule",
             target_node_types |-> {},
             supported_languages |-> <<>>]
      [] name = "MaxFunctionsPerFileRule" ->
            [rule_id |-> IdMaxFunctions, default_severity |-> "WARN",
             default_options |-> MaxOpt(20), base |-> "BaseRule",
             target_node_types |-> {},
             supported_languages |-> <<>>]
      [] name = "PluginRule" ->
            [rule_id |-> IdPlugin, default_severity |-> "OFF",
             default_options |-> EmptyDict, base |-> "NodeRule",
             target_node_types |-> {},
             supported_languages |-> <<Python>>]
      [] OTHER ->
            [rule_id |-> IdPlugin, default_severity |-> "ERROR",
             default_options |-> EmptyDict, base |-> "NodeRule",
             target_node_types |-> {},
             supported_languages |-> <<Python>>]

\* an optional options argument: None, or a dict
NoOptions == [some |-> FALSE, d |-> EmptyDict]

Options(d) == [some |-> TRUE, d |-> d]

\* options or {}
OrEmpty(o) == IF o.some /\ DOMAIN o.d # {} THEN o.d ELSE EmptyDict

\* mutant: the options given replace the default options
NewRule_GivenOnly(cls, severity, options) ==
    [cls |-> cls,
     severity |-> IF severity # None THEN severity ELSE Class(cls).default_severity,
     options |-> IF options.some /\ DOMAIN options.d # {} THEN options.d
                 ELSE Class(cls).default_options]

\* BaseRule.__init__(severity, options); severity None is the class default.
\* Severity is a plain Enum, so Severity.OFF is truthy and the
\* "severity or default" of configure_rule only replaces None.
NewRule(cls, severity, options) ==
    [cls |-> cls,
     severity |-> IF severity # None THEN severity ELSE Class(cls).default_severity,
     options |-> DictMerge(Class(cls).default_options, OrEmpty(options))]

(***************************************************************************)
(* RuleEngine._apply_config and RuleEngine.configure_rule.  Both return    *)
(* the new instance set and the exception raised, if any.                  *)
(***************************************************************************)
\* Every entry of RuleConfig.rules comes from a preset or from
\* _parse_rule_config and holds both 'severity' and 'options': it is a
\* non-empty dict (truthy in "if rule_config:") and the default of
\* rule_config.get('severity', ...) is never taken.  An exception of
\* parse_severity leaves the loop with the instances built so far.
RECURSIVE ApplyLoop(_, _, _, _)
ApplyLoop(acc, reg, cfg, i) ==
    IF i > Len(reg) THEN [rules |-> acc, err |-> None]
    ELSE LET rule_id == reg[i].k
             rule_class == reg[i].v
             rule_config == get_rule_config(cfg, rule_id)
         IN  IF rule_config # <<>>
             THEN LET severity == parse_severity(rule_config[1].severity)
                  IN  IF IsError(severity) THEN [rules |-> acc, err |-> severity]
                      ELSE IF severity # "OFF"
                      THEN ApplyLoop(
                               OdSet(acc, rule_id,
                                     NewRule(rule_class, severity,
                                             Options(rule_config[1].options))),
                               reg, cfg, i + 1)
                      ELSE ApplyLoop(acc, reg, cfg, i + 1)
             ELSE ApplyLoop(OdSet(acc, rule_id, NewRule(rule_class, None, NoOptions)),
                            reg, cfg, i + 1)

\* mutant: a rule without an entry in the configuration is not materialized
_apply_config_DropUnconfigured(rls, reg, cfg) ==
    IF cfg = <<>> THEN [rules |-> rls, err |-> None]
    ELSE LET applied == ApplyLoop(<<>>, reg, cfg[1], 1)
         IN  [applied EXCEPT
                 !.rules = SelectSeq(@, LAMBDA e : e.k \in DOMAIN cfg[1].rules)]

\* mutant: the instances are added to the ones already held
_apply_config_Additive(rls, reg, cfg) ==
    IF cfg = <<>> THEN [rules |-> rls, err |-> None]
    ELSE LET applied == ApplyLoop(<<>>, reg, cfg[1], 1)
         IN  [applied EXCEPT !.rules = rls \o @]

\* mutant: a configured id that is not registered is an error
_apply_config_Strict(rls, reg, cfg) ==
    IF cfg = <<>> THEN [rules |-> rls, err |-> None]
    ELSE IF \E id \in DOMAIN cfg[1].rules : ~OdHas(reg, id)
    THEN [rules |-> <<>>, err |-> "ValueError"]
    ELSE ApplyLoop(<<>>, reg, cfg[1], 1)

\* cfg is <<>> (None) or <<RuleConfig>>; self._rules.clear() comes first
_apply_config(rls, reg, cfg) ==
    IF cfg = <<>> THEN [rules |-> rls, err |-> None]
    ELSE ApplyLoop(<<>>, reg, cfg[1], 1)

\* mutant: OFF is stored like any other severity
configure_rule_KeepsOff(rls, reg, rule_id, severity, options) ==
    IF ~OdHas(reg, rule_id) THEN [rules |-> rls, err |-> "ValueError"]
    ELSE [rules |-> OdSet(rls, rule_id,
                          NewRule(OdGet(reg, rule_id),
                                  IF severity # None THEN severity
                                  ELSE Class(OdGet(reg, rule_id)).default_severity,
                                  Options(OrEmpty(options)))),
          err |-> None]

\* mutant: an id that is not registered is skipped silently
configure_rule_Lenient(rls, reg, rule_id, severity, options) ==
    IF ~OdHas(reg, rule_id) THEN [rules |-> rls, err |-> None]
    ELSE IF severity = "OFF"
    THEN [rules |-> IF OdHas(rls, rule_id) THEN OdDel(rls, rule_id) ELSE rls,
          err |-> None]
    ELSE [rules |-> OdSet(rls, rule_id,
                          NewRule(OdGet(reg, rule_id),
                                  IF severity # None THEN severity
                                  ELSE Class(OdGet(reg, rule_id)).default_severity,
                                  Options(OrEmpty(options)))),
          err |-> None]

\* mutant: the instances of the other registered ids are built anew as well,
\* from their classes' defaults
configure_rule_ResetOthers(rls, reg, rule_id, severity, options) ==
    IF ~OdHas(reg, rule_id) THEN [rules |-> rls, err |-> "ValueError"]
    ELSE LET others == [i \in 1..Len(rls) |->
                           IF rls[i].k = rule_id THEN rls[i]
                           ELSE [k |-> rls[i].k,
                                 v |-> NewRule(OdGet(reg, rls[i].k), None, NoOptions)]]
         IN  IF severity = "OFF"
             THEN [rules |-> IF OdHas(others, rule_id) THEN OdDel(others, rule_id)
                             ELSE others,
                   err |-> None]
             ELSE [rules |-> OdSet(others, rule_id,
                                   NewRule(OdGet(reg, rule_id),
                                           IF severity # None THEN severity
                                           ELSE Class(OdGet(reg, rule_id)).default_severity,
                                           Options(OrEmpty(options)))),
                   err |-> None]

configure_rule(rls, reg, rule_id, severity, options) ==
    IF ~OdHas(reg, rule_id) THEN [rules |-> rls, err |-> "ValueError"]
    ELSE LET rule_class == OdGet(reg, rule_id)
         IN  IF severity = "OFF"
             THEN [rules |-> IF OdHas(rls, rule_id) THEN OdDel(rls, rule_id) ELSE rls,
                   err |-> None]
             ELSE [rules |-> OdSet(rls, rule_id,
                                   NewRule(rule_class,
                                           IF severity # None THEN severity
                                           ELSE Class(rule_class).default_severity,
                                           Options(OrEmpty(options)))),
                   err |-> None]

\* RuleEngine.get_rule, as an optional value
get_rule(rls, rule_id) == IF OdHas(rls, rule_id) THEN <<OdGet(rls, rule_id)>> ELSE <<>>

(***************************************************************************)
(* LintResult (rules/result.py), the rules' check and RuleEngine.lint.     *)
(***************************************************************************)
NewLintResult(file_path) ==
    [file_path |-> file_path, violations |-> <<>>, error_count |-> 0,
     warning_count |-> 0, parse_errors |-> <<>>]

\* get_all_builtin_rules(): COMPLEXITY_RULES, NAMING_RULES, STRUCTURE_RULES
get_all_builtin_rules ==
    <<"MaxComplexityRule", "MaxFunctionLinesRule", "MaxParamsRule",
      "FunctionNamingRule", "ClassNamingRule",
      "MaxFileLinesRule", "MaxClassesPerFileRule", "MaxFunctionsPerFileRule">>

\* RuleEngine.register_builtin_rules: register_rule for each class in turn
register_builtin_rules(reg) ==
    LET RECURSIVE Loop(_, _)
        Loop(r, i) ==
            IF i > Len(get_all_builtin_rules) THEN r
            ELSE Loop(OdSet(r, Class(get_all_builtin_rules[i]).rule_id,
                            get_all_builtin_rules[i]), i + 1)
    IN  Loop(reg, 1)

\* mutant: whatever is not an ERROR counts as a warning
add_violation_ElseWarning(r, violation) ==
    [r EXCEPT !.violations = Append(@, violation),
              !.error_count = IF violation.severity = "ERROR" THEN @ + 1 ELSE @,
              !.warning_count = IF violation.severity = "ERROR" THEN @ ELSE @ + 1]

\* LintResult.add_violation
add_violation(r, violation) ==
    [r EXCEPT !.violations = Append(@, violation),
              !.error_count = IF violation.severity = "ERROR" THEN @ + 1 ELSE @,
              !.warning_count = IF violation.severity = "WARN" THEN @ + 1 ELSE @]

LowerLetters ==
    <<"a", "b", "c", "d", "e", "f", "g", "h", "i", "j", "k", "l", "m",
      "n", "o", "p", "q", "r", "s", "t", "u", "v", "w", "x", "y", "z">>

UpperLetters ==
    <<"A", "B", "C", "D", "E", "F", "G", "H", "I", "J", "K", "L", "M",
      "N", "O", "P", "Q", "R", "S", "T", "U", "V", "W", "X", "Y", "Z">>

ToLower ==
    [c \in {UpperLetters[k] : k \in 1..Len(UpperLetters)} |->
        LowerLetters[CHOOSE k \in 1..Len(UpperLetters) : UpperLetters[k] = c]]

LowerChar(c) == IF c \in DOMAIN ToLower THEN ToLower[c] ELSE c

\* str.lower()
Lower(s) == [i \in 1..Len(s) |-> LowerChar(s[i])]

\* mutant: the language is compared as written
supports_language_CaseSensitive(rule, language) ==
    LET langs == Class(rule.cls).supported_languages
    IN  \/ langs = <<>>
        \/ \E i \in 1..Len(langs) : langs[i] = language

\* BaseRule.supports_language
supports_language(rule, language) ==
    LET langs == Class(rule.cls).supported_languages
    IN  \/ langs = <<>>
        \/ \E i \in 1..Len(langs) : Lower(langs[i]) = Lower(language)

\* mutant: the violation carries the severity the rule's class declares
create_violation_DefaultSeverity(rule, file_path, node_name, metadata) ==
    [rule_id |-> Class(rule.cls).rule_id,
     severity |-> Class(rule.cls).default_severity,
     file_path |-> file_path, node_name |-> node_name, metadata |-> metadata]

\* BaseRule.create_violation
create_violation(rule, file_path, node_name, metadata) ==
    [rule_id |-> Class(rule.cls).rule_id, severity |-> rule.severity,
     file_path |-> file_path, node_name |-> node_name, metadata |-> metadata]

\* options.get(key, default)
OptGet(options, key, default) == IF key \in DOMAIN options THEN options[key] ELSE default

ActualMax(actual, max) == [k \in {"actual", "max"} |-> IF k = "actual" THEN actual ELSE max]

\* mutant: an empty list of target node types selects no node
_should_check_node_EmptyIsNone(rule, node) ==
    node.node_type \in Class(rule.cls).target_node_types

\* NodeRule._should_check_node
_should_check_node(rule, node) ==
    \/ Class(rule.cls).target_node_types = {}
    \/ node.node_type \in Class(rule.cls).target_node_types

\* mutant: only a leading 'self' or 'cls' is left out of the count
MaxParamsRule_check_node_LeadingOnly(rule, node, pr) ==
    LET max_params == OptGet(rule.options, "max", 5)
        params == IF node.params # <<>> /\ node.params[1] \in {"self", "cls"}
                  THEN Tail(node.params) ELSE node.params
        actual_params == Len(params)
    IN  IF actual_params > max_params
        THEN <<create_violation(rule, pr.file_path, node.name,
                                [k \in {"actual", "max", "params"} |->
                                    CASE k = "actual" -> actual_params
                                      [] k = "max" -> max_params
                                      [] OTHER -> params])>>
        ELSE <<>>

\* MaxParamsRule.check_node
MaxParamsRule_check_node(rule, node, pr) ==
    LET max_params == OptGet(rule.options, "max", 5)
        params == SelectSeq(node.params, LAMBDA p : p \notin {"self", "cls"})
        actual_params == Len(params)
    IN  IF actual_params > max_params
        THEN <<create_violation(rule, pr.file_path, node.name,
                                [k \in {"actual", "max", "params"} |->
                                    CASE k = "actual" -> actual_params
                                      [] k = "max" -> max_params
                                      [] OTHER -> params])>>
        ELSE <<>>

\* The regular expressions of rules/builtin/naming.py.  A pattern is its
\* source text and, between ^ and $, its items in order: a set of characters
\* and whether the item is starred.  The characters a name is written in are
\* letters, digits, '_' and '$'; '.' stands for all of them.
Digits == {"0", "1", "2", "3", "4", "5", "6", "7", "8", "9"}

Item(chars, star) == [chars |-> chars, star |-> star]

\* FunctionNamingRule.PATTERNS
PATTERNS ==
    LET lower == {LowerLetters[k] : k \in 1..Len(LowerLetters)}
        upper == {UpperLetters[k] : k \in 1..Len(UpperLetters)}
    IN  [style \in {"snake_case", "camelCase", "PascalCase"} |->
            CASE style = "snake_case" ->
                    [src |-> "^[a-z_][a-z0-9_]*$",
                     items |-> <<Item(lower \cup {"_"}, FALSE),
                                 Item(lower \cup Digits \cup {"_"}, TRUE)>>]
              [] style = "camelCase" ->
                    [src |-> "^[a-z][a-zA-Z0-9]*$",
                     items |-> <<Item(lower, FALSE),
                                 Item(lower \cup upper \cup Digits, TRUE)>>]
              [] OTHER ->
                    [src |-> "^[A-Z][a-zA-Z0-9]*$",
                     items |-> <<Item(upper, FALSE),
                                 Item(lower \cup upper \cup Digits, TRUE)>>]]

\* FunctionNamingRule.IGNORE_PATTERNS
IGNORE_PATTERNS ==
    LET any == {LowerLetters[k] : k \in 1..Len(LowerLetters)}
                  \cup {UpperLetters[k] : k \in 1..Len(UpperLetters)}
                  \cup Digits \cup {"_", "$"}
    IN  <<[src |-> "^__.*__$",
           items |-> <<Item({"_"}, FALSE), Item({"_"}, FALSE), Item(any, TRUE),
                       Item({"_"}, FALSE), Item({"_"}, FALSE)>>]>>

\* re.match(pattern, string) for a pattern anchored at both ends: the items
\* from position i on match the string from position j to its end
RECURSIVE re_match(_, _, _, _)
re_match(items, i, string, j) ==
    IF i > Len(items) THEN j > Len(string)
    ELSE IF items[i].star
         THEN \/ re_match(items, i + 1, string, j)
              \/ /\ j <= Len(string)
                 /\ string[j] \in items[i].chars
                 /\ re_match(items, i, string, j + 1)
         ELSE /\ j <= Len(string)
              /\ string[j] \in items[i].chars
              /\ re_match(items, i + 1, string, j + 1)

StyleMetadata(style) ==
    [k \in {"style", "pattern"} |-> IF k = "style" THEN style ELSE PATTERNS[style].src]

\* mutant: the style is tested before the exemption, which then only spares
\* names that fit the style
FunctionNamingRule_check_node_StyleFirst(rule, node, pr) ==
    LET style == OptGet(rule.options, "style", "snake_case")
    IN  IF style \notin DOMAIN PATTERNS THEN <<>>
        ELSE IF ~re_match(PATTERNS[style].items, 1, node.name, 1)
             THEN <<create_violation(rule, pr.file_path, node.name,
                                     StyleMetadata(style))>>
        ELSE <<>>

\* FunctionNamingRule.check_node
FunctionNamingRule_check_node(rule, node, pr) ==
    LET style == OptGet(rule.options, "style", "snake_case")
    IN  IF style \notin DOMAIN PATTERNS THEN <<>>
        ELSE IF \E k \in 1..Len(IGNORE_PATTERNS) :
                    re_match(IGNORE_PATTERNS[k].items, 1, node.name, 1)
             THEN <<>>
        ELSE IF ~re_match(PATTERNS[style].items, 1, node.name, 1)
             THEN <<create_violation(rule, pr.file_path, node.name,
                                     StyleMetadata(style))>>
        ELSE <<>>

\* ClassNamingRule.check_node; ClassNamingRule.PATTERNS holds the same three
\* patterns as FunctionNamingRule.PATTERNS
ClassNamingRule_check_node(rule, node, pr) ==
    LET style == OptGet(rule.options, "style", "PascalCase")
    IN  IF style \notin DOMAIN PATTERNS THEN <<>>
        ELSE IF ~re_match(PATTERNS[style].items, 1, node.name, 1)
             THEN <<create_violation(rule, pr.file_path, node.name,
                                     StyleMetadata(style))>>
        ELSE <<>>

\* MaxFunctionLinesRule.check_node
MaxFunctionLinesRule_check_node(rule, node, pr) ==
    LET max_lines == OptGet(rule.options, "max", 50)
        actual_lines == node.line_end - node.line_start + 1
    IN  IF actual_lines > max_lines
        THEN <<create_violation(rule, pr.file_path, node.name,
                                ActualMax(actual_lines, max_lines))>>
        ELSE <<>>

\* mutant: a complexity equal to the maximum is reported too
check_node_AtLeast(rule, node, pr) ==
    IF rule.cls = "MaxComplexityRule"
    THEN LET max_complexity == OptGet(rule.options, "max", 10)
         IN  IF node.complexity >= max_complexity
             THEN <<create_violation(rule, pr.file_path, node.name,
                                     ActualMax(node.complexity, max_complexity))>>
             ELSE <<>>
    ELSE IF rule.cls = "MaxFunctionLinesRule"
         THEN MaxFunctionLinesRule_check_node(rule, node, pr)
    ELSE IF rule.cls = "MaxParamsRule" THEN MaxParamsRule_check_node(rule, node, pr)
    ELSE IF rule.cls = "ClassNamingRule" THEN ClassNamingRule_check_node(rule, node, pr)
    ELSE IF rule.cls = "FunctionNamingRule"
         THEN FunctionNamingRule_check_node(rule, node, pr)
    ELSE <<create_violation(rule, pr.file_path, node.name, EmptyDict)>>

\* check_node of the node rules: MaxComplexityRule.check_node, the four
\* above, and the add-on rules', which report every node they are handed
check_node(rule, node, pr) ==
    IF rule.cls = "MaxComplexityRule"
    THEN LET max_complexity == OptGet(rule.options, "max", 10)
         IN  IF node.complexity > max_complexity
             THEN <<create_violation(rule, pr.file_path, node.name,
                                     ActualMax(node.complexity, max_complexity))>>
             ELSE <<>>
    ELSE IF rule.cls = "MaxFunctionLinesRule"
         THEN MaxFunctionLinesRule_check_node(rule, node, pr)
    ELSE IF rule.cls = "MaxParamsRule" THEN MaxParamsRule_check_node(rule, node, pr)
    ELSE IF rule.cls = "ClassNamingRule" THEN ClassNamingRule_check_node(rule, node, pr)
    ELSE IF rule.cls = "FunctionNamingRule"
         THEN FunctionNamingRule_check_node(rule, node, pr)
    ELSE <<create_violation(rule, pr.file_path, node.name, EmptyDict)>>

\* the add-on rule PluginRuleV2 divides by the node's complexity: its
\* check_node raises ZeroDivisionError on a node of complexity 0
check_node_raises(rule, node) == rule.cls = "PluginRuleV2" /\ node.complexity = 0

\* what a check call did: the violations it returned, the positions (in
\* parse_result.nodes) of the nodes it handed to check_node, in call order,
\* and the exception it raised, if any
Checked(violations) == [violations |-> violations, visited |-> <<>>, err |-> None]

RECURSIVE NodeLoop(_, _, _, _)
NodeLoop(rule, pr, i, acc) ==
    IF i > Len(pr.nodes) THEN acc
    ELSE IF ~_should_check_node(rule, pr.nodes[i]) THEN NodeLoop(rule, pr, i + 1, acc)
    ELSE IF check_node_raises(rule, pr.nodes[i])
         THEN [acc EXCEPT !.visited = Append(@, i), !.violations = <<>>,
                          !.err = "ZeroDivisionError"]
    ELSE NodeLoop(rule, pr, i + 1,
                  [acc EXCEPT !.visited = Append(@, i),
                              !.violations = @ \o check_node(rule, pr.nodes[i], pr)])

\* mutant: methods are counted as functions too
get_functions_WithMethods(pr) ==
    SelectSeq(pr.nodes, LAMBDA node : node.node_type \in {"function", "method"})

\* ParseResult.get_functions
get_functions(pr) == SelectSeq(pr.nodes, LAMBDA node : node.node_type = "function")

\* ParseResult.get_classes
get_classes(pr) == SelectSeq(pr.nodes, LAMBDA node : node.node_type = "class")

Names(nodes) == [k \in 1..Len(nodes) |-> nodes[k].name]

CountMetadata(actual, max, key, names) ==
    [k \in {"actual", "max", key} |->
        CASE k = "actual" -> actual [] k = "max" -> max [] OTHER -> names]

\* MaxClassesPerFileRule.check
MaxClassesPerFileRule_check(rule, pr) ==
    LET max_classes == OptGet(rule.options, "max", 5)
        classes == get_classes(pr)
        actual_classes == Len(classes)
    IN  IF actual_classes > max_classes
        THEN Checked(<<create_violation(rule, pr.file_path, "",
                                        CountMetadata(actual_classes, max_classes,
                                                      "classes", Names(classes)))>>)
        ELSE Checked(<<>>)

\* MaxFunctionsPerFileRule.check
MaxFunctionsPerFileRule_check(rule, pr) ==
    LET max_functions == OptGet(rule.options, "max", 20)
        functions == get_functions(pr)
        actual_functions == Len(functions)
    IN  IF actual_functions > max_functions
        THEN Checked(<<create_violation(rule, pr.file_path, "",
                                        CountMetadata(actual_functions, max_functions,
                                                      "functions", Names(functions)))>>)
        ELSE Checked(<<>>)

\* rule.check(parse_result): NodeRule.check, or the check of a whole-file
\* rule (MaxFileLinesRule.check in place)
check(rule, pr) ==
    IF Class(rule.cls).base = "NodeRule"
    THEN IF ~supports_language(rule, pr.language) THEN Checked(<<>>)
         ELSE NodeLoop(rule, pr, 1, Checked(<<>>))
    ELSE IF rule.cls = "MaxClassesPerFileRule" THEN MaxClassesPerFileRule_check(rule, pr)
    ELSE IF rule.cls = "MaxFunctionsPerFileRule"
         THEN MaxFunctionsPerFileRule_check(rule, pr)
    ELSE LET max_lines == OptGet(rule.options, "max", 500)
         IN  IF pr.total_lines > max_lines
             THEN Checked(<<create_violation(rule, pr.file_path, "",
                                             ActualMax(pr.total_lines, max_lines))>>)
             ELSE Checked(<<>>)

RECURSIVE AddAll(_, _, _)
AddAll(r, violations, i) ==
    IF i > Len(violations) THEN r
    ELSE AddAll(add_violation(r, violations[i]), violations, i + 1)

\* mutant: disabled instances are checked like the others
is_enabled_Always(rule) == TRUE

\* BaseRule.is_enabled
is_enabled(rule) == rule.severity # "OFF"

\* RuleEngine.get_enabled_rules
get_enabled_rules(rls) ==
    LET held == SelectSeq(rls, LAMBDA e : is_enabled(e.v))
    IN  [i \in 1..Len(held) |-> held[i].v]

\* the loop of RuleEngine.lint: acc.r is the LintResult being filled,
\* acc.invoked the instances whose check was called, in call order, acc.err
\* the exception that ended the loop
RECURSIVE LintLoop(_, _, _, _)
LintLoop(rls, pr, i, acc) ==
    IF i > Len(rls) THEN acc
    ELSE IF ~(is_enabled(rls[i].v) /\ supports_language(rls[i].v, pr.language))
         THEN LintLoop(rls, pr, i + 1, acc)
    ELSE LET called == [acc EXCEPT !.invoked = Append(@, rls[i].v)]
             Step(done) ==
                 IF done.err # None THEN [called EXCEPT !.err = done.err]
                 ELSE LintLoop(rls, pr, i + 1,
                               [called EXCEPT !.r = AddAll(@, done.violations, 1)])
         IN  Step(check(rls[i].v, pr))

\* mutant: parse_errors is bound to the outcome's own errors list
list_copy_Alias(obj) == obj

\* list.copy(): the copy is a list object of its own.  A list object is named
\* by the file path of the outcome that holds it, <<>> naming a list object
\* no outcome holds
list_copy(obj) == <<>>

LintStart(pr) ==
    [r |-> [NewLintResult(pr.file_path) EXCEPT !.parse_errors = pr.errors],
     invoked |-> <<>>, err |-> None]

\* mutant: the exception of a check is swallowed and the result returned
lint_CatchAll(rls, pr) ==
    LET Returned(acc) ==
            [returned |-> <<acc.r>>, invoked |-> acc.invoked, err |-> None,
             errors_obj |-> list_copy(pr.file_path)]
    IN  Returned(LintLoop(rls, pr, 1, LintStart(pr)))

\* RuleEngine.lint: the LintResult returned (none when a check raised), the
\* instances whose check was invoked, the exception that reached the caller
\* and the list object bound to the result's parse_errors
lint(rls, pr) ==
    LET Returned(acc) ==
            [returned |-> IF acc.err = None THEN <<acc.r>> ELSE <<>>,
             invoked |-> acc.invoked, err |-> acc.err,
             errors_obj |-> list_copy(pr.file_path)]
    IN  Returned(LintLoop(rls, pr, 1, LintStart(pr)))

(***************************************************************************)
(* Inputs: parse results, rule configurations and documents.               *)
(***************************************************************************)
Node(node_type, name, complexity) ==
    [node_type |-> node_type, name |-> name, line_start |-> 1, line_end |-> 1,
     complexity |-> complexity, params |-> <<>>]

\* file paths
a_py == <<"a", ".", "p", "y">>

b_js == <<"b", ".", "j", "s">>

ParseResults ==
    {[file_path |-> a_py, language |-> python,
      nodes |-> <<Node("function", "f", 12), Node("class", "K", 0),
                  Node("method", "g", 6)>>,
      total_lines |-> 600, errors |-> <<>>],
     [file_path |-> b_js, language |-> javascript,
      nodes |-> <<Node("function", "h", 9)>>,
      total_lines |-> 40, errors |-> <<"syntax error">>]}

fatal == RawStr(<<"f", "a", "t", "a", "l">>)

RawRuleValues ==
    {RawScalar(off), RawScalar(RawInt(2)), RawScalar(RawStr(<<"W", "a", "r", "n">>)),
     RawList(<<>>), RawList(<<error>>), RawList(<<error, MaxOpt(5)>>),
     RawDict(EmptyDict), RawDict(Dict1("options", Dict1("extra", 1))),
     RawDict([k \in {"severity", "options"} |->
                 IF k = "severity" THEN RawInt(0) ELSE MaxOpt(7)]),
     RawNull}

PresetArgs == PresetNames \cup {"nope"}

RECURSIVE SeqsUpTo(_, _)
SeqsUpTo(S, n) ==
    IF n = 0 THEN {<<>>}
    ELSE LET shorter == SeqsUpTo(S, n - 1)
         IN  shorter \cup {Append(q, x) : q \in shorter, x \in S}

ExtendsValues ==
    {ExtendsAbsent} \cup {ExtendsStr(n) : n \in PresetArgs}
        \cup {ExtendsList(q) : q \in SeqsUpTo(PresetArgs, MaxExtends)}

OverrideIds == {IdMaxComplexity, IdMaxFileLines, IdPlugin}

\* the documents handed to _from_dict on its own
Docs ==
    {Doc(e, EmptyDict) : e \in ExtendsValues}
        \cup {Doc(e, Dict1(id, raw)) :
                e \in ExtendsValues, id \in OverrideIds, raw \in RawRuleValues}

\* the documents load_config reads in the engine runs
EngineDocNames == {"override", "bad-severity", "plugin"}

EngineDoc(name) ==
    CASE name = "override" ->
            Doc(ExtendsList(<<"recommended">>),
                [id \in {IdMaxComplexity, IdMaxFileLines} |->
                    IF id = IdMaxComplexity THEN RawList(<<error, MaxOpt(5)>>)
                    ELSE RawScalar(off)])
      [] name = "bad-severity" ->
            Doc(ExtendsAbsent, Dict1(IdMaxFileLines, RawScalar(fatal)))
      [] name = "ignore-md" ->
            [Doc(ExtendsStr("recommended"), EmptyDict)
                EXCEPT !.ignorePatterns = <<<<"*", ".", "m", "d">>>>]
      [] name = "ignore-two" ->
            [Doc(ExtendsAbsent, Dict1(IdMaxFileLines, RawScalar(error)))
                EXCEPT !.ignorePatterns = <<<<"?", ".", "m", "d">>, <<"b", "*", "s">>>>]
      [] OTHER ->
            Doc(ExtendsStr("minimal"),
                [id \in {IdPlugin, IdUnknown} |->
                    IF id = IdPlugin THEN RawScalar(RawInt(2)) ELSE RawScalar(warn)])

(***************************************************************************)
(* The engine: state after RuleEngine.__init__ and one action per call.    *)
(***************************************************************************)
\* last: the latest configuration call (op, arg, sev), the exception it raised
\* (err), whether it repeated the configuration call before it on an unchanged
\* registry (again), whether a rule was registered since (reg), and for a
\* bulk configuration whether the configuration call before it was a
\* configure_rule that returned (patched), for a configure_rule that built an
\* instance the options it was given (opts)
NoCall ==
    [op |-> "none", arg |-> "", sev |-> None, err |-> None, again |-> FALSE,
     reg |-> FALSE, patched |-> FALSE, opts |-> NoOptions]

Call(op, arg, sev, err, again) ==
    [op |-> op, arg |-> arg, sev |-> sev, err |-> err, again |-> again, reg |-> FALSE,
     patched |-> FALSE, opts |-> NoOptions]

NoDoc == Doc(ExtendsAbsent, EmptyDict)

\* run: the latest lint or lint_files call (op); for lint the outcome's path
\* and language, the instances whose check it invoked and the list object
\* bound to the result's parse_errors; for lint_files the paths it was given
\* and the paths it handed to a parser; for both the exception raised
NoRun ==
    [op |-> "none", path |-> <<>>, language |-> <<>>, invoked |-> <<>>,
     err |-> None, errors_obj |-> <<>>, paths |-> <<>>, parsed |-> <<>>]

NoUnit == <<>>

\* the ParseResult objects the caller holds, as parsed
Outcomes == [p \in {pr.file_path : pr \in ParseResults} |->
                CHOOSE pr \in ParseResults : pr.file_path = p]

NoKept == <<>>

\* the state outside the engine before any call
Idle ==
    /\ report = <<>>
    /\ run = NoRun
    /\ unit = NoUnit
    /\ outcomes = <<>>
    /\ kept = NoKept

Init ==
    /\ registry = <<>>
    /\ rules = <<>>
    /\ config = <<>>
    /\ last = NoCall
    /\ calls = 0
    /\ result = <<>>
    /\ doc = NoDoc
    /\ Idle

\* mutant: registering a class builds its instance at once
RegisterRule_Eager(c) ==
    /\ calls < MaxCalls
    /\ registry' = OdSet(registry, Class(c).rule_id, c)
    /\ rules' = OdSet(rules, Class(c).rule_id, NewRule(c, None, NoOptions))
    /\ last' = [last EXCEPT !.reg = TRUE]
    /\ calls' = calls + 1
    /\ UNCHANGED <<config, result, doc, report, run, unit, outcomes, kept>>

\* mutant: registering a class discards the instance held under its id
RegisterRule_DropsInstance(c) ==
    /\ calls < MaxCalls
    /\ registry' = OdSet(registry, Class(c).rule_id, c)
    /\ rules' = OdDel(rules, Class(c).rule_id)
    /\ last' = [last EXCEPT !.reg = TRUE]
    /\ calls' = calls + 1
    /\ UNCHANGED <<config, result, doc, report, run, unit, outcomes, kept>>

\* register_rule(rule_class)
RegisterRule(c) ==
    /\ calls < MaxCalls
    /\ registry' = OdSet(registry, Class(c).rule_id, c)
    /\ last' = [last EXCEPT !.reg = TRUE]
    /\ calls' = calls + 1
    /\ UNCHANGED <<rules, config, result, doc, report, run, unit, outcomes, kept>>

\* self._config = cfg; self._apply_config()
Configure(op, arg, cfg) ==
    LET applied == _apply_config(rules, registry, <<cfg>>)
    IN  /\ calls < MaxCalls
        /\ config' = <<cfg>>
        /\ rules' = applied.rules
        /\ last' = [Call(op, arg, None, applied.err,
                         last.op = op /\ last.arg = arg /\ ~last.reg)
                       EXCEPT !.patched = last.op = "configure_rule" /\ last.err = None]
        /\ calls' = calls + 1
        /\ result' = <<>>
        /\ run' = NoRun
        /\ kept' = NoKept
        /\ UNCHANGED <<registry, doc, report, unit, outcomes>>

\* use_preset(preset_name)
UsePreset(name) == Configure("use_preset", name, _load_preset(name))

\* load_config(config_path) on a file holding the document
LoadConfig(name) == Configure("load_config", name, _from_dict(EngineDoc(name)))

\* configure_rule(rule_id, severity, options)
ConfigureRule(rule_id, severity, options) ==
    LET done == configure_rule(rules, registry, rule_id, severity, options)
    IN  /\ calls < MaxCalls
        /\ rules' = done.rules
        /\ last' = [Call("configure_rule", rule_id, severity, done.err, FALSE)
                       EXCEPT !.opts = IF severity # "OFF" /\ OdHas(registry, rule_id)
                                       THEN options ELSE NoOptions]
        /\ calls' = calls + 1
        /\ result' = <<>>
        /\ run' = NoRun
        /\ kept' = NoKept
        /\ UNCHANGED <<registry, config, doc, report, unit, outcomes>>

\* lint(parse_result)
LintCall(pr) ==
    \E out \in {lint(rules, pr)} :
        /\ result' = out.returned
        /\ run' = [NoRun EXCEPT !.op = "lint", !.path = pr.file_path,
                                !.language = pr.language, !.invoked = out.invoked,
                                !.err = out.err, !.errors_obj = out.errors_obj]
        /\ UNCHANGED <<registry, rules, config, last, calls, doc, report, unit>>

Lint(pr) == LintCall(pr) /\ UNCHANGED <<outcomes, kept>>

RuleIdArgs == {IdMaxComplexity, IdMaxFileLines, IdPlugin, IdUnknown}

SeverityArgs == {None, "OFF", "ERROR"}

OptionArgs == {NoOptions, Options(MaxOpt(5))}

Next ==
    \/ \E c \in ClassNames : RegisterRule(c)
    \/ \E n \in PresetArgs : UsePreset(n)
    \/ \E n \in EngineDocNames : LoadConfig(n)
    \/ \E id \in RuleIdArgs, s \in SeverityArgs, o \in OptionArgs : ConfigureRule(id, s, o)
    \/ \E pr \in ParseResults : Lint(pr)

Spec == Init /\ [][Next]_vars

(***************************************************************************)
(* RuleConfig._from_dict on its own: one document, parsed once.            *)
(***************************************************************************)
InitConfig ==
    /\ doc \in Docs
    /\ registry = <<>>
    /\ rules = <<>>
    /\ config = <<>>
    /\ last = NoCall
    /\ calls = 0
    /\ result = <<>>
    /\ Idle

FromDict ==
    /\ config = <<>>
    /\ config' = <<_from_dict(doc)>>
    /\ UNCHANGED <<registry, rules, last, calls, result, doc, report, run, unit,
                   outcomes, kept>>

NextConfig == FromDict

SpecConfig == InitConfig /\ [][NextConfig]_vars

(***************************************************************************)
(* A LintResult built by add_violation calls alone.                        *)
(***************************************************************************)
ViolationArgs ==
    {[rule_id |-> id, severity |-> s, file_path |-> a_py, node_name |-> "f",
      metadata |-> EmptyDict] : id \in {IdMaxComplexity, "test/rule"}, s \in Severities}

InitResult ==
    /\ result = <<NewLintResult(a_py)>>
    /\ registry = <<>>
    /\ rules = <<>>
    /\ config = <<>>
    /\ last = NoCall
    /\ calls = 0
    /\ doc = NoDoc
    /\ Idle

AddViolation(v) ==
    /\ Len(result[1].violations) < MaxViolations
    /\ result' = <<add_violation(result[1], v)>>
    /\ UNCHANGED <<registry, rules, config, last, calls, doc, report, run, unit,
                   outcomes, kept>>

NextResult == \E v \in ViolationArgs : AddViolation(v)

SpecResult == InitResult /\ [][NextResult]_vars

(***************************************************************************)
(* A LintReport built by add_result calls alone.                           *)
(***************************************************************************)
\* mutant: a file whose only trouble is a parse error has no issue
has_issues_ViolationsOnly(r) == Len(r.violations) > 0

\* LintResult.has_issues
has_issues(r) == Len(r.violations) > 0 \/ Len(r.parse_errors) > 0

\* LintReport.add_result
add_result(results, r) == Append(results, r)

\* sum(...) over a list of numbers
RECURSIVE Sum(_)
Sum(q) == IF q = <<>> THEN 0 ELSE q[1] + Sum(Tail(q))

\* LintReport.total_errors
total_errors(results) == Sum([i \in 1..Len(results) |-> results[i].error_count])

\* LintReport.total_warnings
total_warnings(results) == Sum([i \in 1..Len(results) |-> results[i].warning_count])

\* LintReport.total_violations
total_violations(results) ==
    Sum([i \in 1..Len(results) |-> Len(results[i].violations)])

\* LintReport.files_with_issues
files_with_issues(results) ==
    Sum([i \in 1..Len(results) |-> IF has_issues(results[i]) THEN 1 ELSE 0])

\* LintReport.total_files
total_files(results) == Len(results)

\* the results handed to add_result: filled by add_violation, with or
\* without a parse error
ResultArgs ==
    {AddAll([NewLintResult(a_py) EXCEPT !.parse_errors = e], vs, 1) :
        vs \in SeqsUpTo({v \in ViolationArgs : v.rule_id = IdMaxComplexity}, 2),
        e \in {<<>>, <<"syntax error">>}}

InitReport ==
    /\ registry = <<>>
    /\ rules = <<>>
    /\ config = <<>>
    /\ last = NoCall
    /\ calls = 0
    /\ result = <<>>
    /\ doc = NoDoc
    /\ Idle

AddResult(r) ==
    /\ Len(report) < MaxResults
    /\ report' = add_result(report, r)
    /\ UNCHANGED <<registry, rules, config, last, calls, result, doc, run, unit,
                   outcomes, kept>>

NextReport == \E r \in ResultArgs : AddResult(r)

SpecReport == InitReport /\ [][NextReport]_vars

(***************************************************************************)
(* lint on the outcomes a caller keeps: an engine set up by at most        *)
(* MaxSetup calls, lint calls on the caller's ParseResult objects, and the *)
(* caller writing to the LintResult it was handed.                         *)
(***************************************************************************)
\* parse_result.errors of the caller's outcome, as it stands
ErrorsOf(p) == IF OdHas(outcomes, p) THEN OdGet(outcomes, p) ELSE Outcomes[p].errors

Outcome(p) == [Outcomes[p] EXCEPT !.errors = ErrorsOf(p)]

\* what is kept of the lint calls on one outcome: the number of calls, what
\* the first and the latest returned or raised
KeptOf(p) ==
    IF OdHas(kept, p) THEN OdGet(kept, p) ELSE [n |-> 0, first |-> <<>>, latest |-> <<>>]

\* lint(parse_result) on the caller's outcome at path p
LintOutcome(p) ==
    \E out \in {lint(rules, Outcome(p))}, was \in {KeptOf(p)} :
    LET seen == [returned |-> out.returned, err |-> out.err]
    IN  /\ was.n < MaxLints
        /\ LintCall(Outcome(p))
        /\ kept' = OdSet(kept, p,
                         [n |-> was.n + 1,
                          first |-> IF was.n = 0 THEN <<seen>> ELSE was.first,
                          latest |-> <<seen>>])
        /\ UNCHANGED outcomes

\* the caller appends a message to the parse_errors list of the LintResult
\* it holds; an outcome holding the same list object sees the message too
AppendParseError(msg) ==
    /\ result # <<>>
    /\ Len(result[1].parse_errors) < MaxParseErrors
    /\ result' = <<[result[1] EXCEPT !.parse_errors = Append(@, msg)]>>
    /\ outcomes' = IF run.errors_obj = <<>> THEN outcomes
                   ELSE OdSet(outcomes, run.errors_obj,
                              Append(ErrorsOf(run.errors_obj), msg))
    /\ UNCHANGED <<registry, rules, config, last, calls, doc, report, run, unit, kept>>

NextLint ==
    \/ calls < MaxSetup /\ \E c \in ClassNames : RegisterRule(c)
    \/ calls < MaxSetup /\ \E n \in PresetArgs : UsePreset(n)
    \/ calls < MaxSetup /\ \E id \in RuleIdArgs, sv \in SeverityArgs, o \in OptionArgs :
                               ConfigureRule(id, sv, o)
    \/ \E p \in DOMAIN Outcomes : LintOutcome(p)
    \/ AppendParseError("note")

SpecLint == Init /\ [][NextLint]_vars

(***************************************************************************)
(* lint_file and lint_files: parser lookup by extension, parsing, ignore   *)
(* patterns.  tree_sitter says whether the tree-sitter packages that the   *)
(* JavaScript and TypeScript parsers need are installed.                   *)
(***************************************************************************)
\* str.rfind(c), counting from 1; 0 when c is absent
LastIndex(text, c) ==
    IF \E i \in 1..Len(text) : text[i] = c
    THEN CHOOSE i \in 1..Len(text) :
            text[i] = c /\ \A j \in (i + 1)..Len(text) : text[j] # c
    ELSE 0

\* Path(file_path).suffix
Suffix(file_path) ==
    LET name == SubSeq(file_path, LastIndex(file_path, "/") + 1, Len(file_path))
        i == LastIndex(name, ".")
    IN  IF 1 < i /\ i < Len(name) THEN SubSeq(name, i, Len(name)) ELSE <<>>

\* ParserFactory._extension_map.get(ext), <<>> being None
_extension_map(ext) ==
    CASE ext = <<".", "p", "y">> -> python
      [] ext \in {<<".", "j", "s">>, <<".", "j", "s", "x">>} -> javascript
      [] ext \in {<<".", "t", "s">>, <<".", "t", "s", "x">>} ->
            <<"t", "y", "p", "e", "s", "c", "r", "i", "p", "t">>
      [] OTHER -> <<>>

\* ParserFactory.get_parser: the parser instance, or the exception its
\* constructor raised
get_parser(language, tree_sitter) ==
    IF Lower(language) = python THEN [parser |-> "PythonParser", err |-> None]
    ELSE IF tree_sitter THEN [parser |-> "JavaScriptParser", err |-> None]
    ELSE [parser |-> None, err |-> "ImportError"]

\* ParserFactory.get_parser_by_file
get_parser_by_file(file_path, tree_sitter) ==
    LET language == _extension_map(Lower(Suffix(file_path)))
    IN  IF language # <<>> THEN get_parser(language, tree_sitter)
        ELSE [parser |-> None, err |-> None]

n_md == <<"n", ".", "m", "d">>

\* the paths handed to lint_files
FilePaths == {a_py, b_js, n_md}

\* parser.parse_file(file_path): the parse result of the file's content
\* (that of b.js holds a parse error)
parse_file(parser, file_path) == Outcomes[file_path]

\* fnmatch.fnmatch(name, pat) for patterns of literals, ? and *
RECURSIVE fnmatch(_, _)
fnmatch(name, pat) ==
    IF pat = <<>> THEN name = <<>>
    ELSE IF Head(pat) = "*"
         THEN fnmatch(name, Tail(pat)) \/ (name # <<>> /\ fnmatch(Tail(name), pat))
    ELSE /\ name # <<>>
         /\ Head(pat) = "?" \/ Head(pat) = Head(name)
         /\ fnmatch(Tail(name), Tail(pat))

\* mutant: only the first ignore pattern is tried
_should_ignore_FirstPattern(cfg, file_path) ==
    /\ cfg # <<>>
    /\ cfg[1].ignore_patterns # <<>>
    /\ fnmatch(file_path, cfg[1].ignore_patterns[1])

\* RuleEngine._should_ignore
_should_ignore(cfg, file_path) ==
    /\ cfg # <<>>
    /\ \E i \in 1..Len(cfg[1].ignore_patterns) :
          fnmatch(file_path, cfg[1].ignore_patterns[i])

\* RuleEngine.lint_file: the LintResult returned, or the exception raised
lint_file(rls, file_path, tree_sitter) ==
    LET got == get_parser_by_file(file_path, tree_sitter)
    IN  IF got.err # None THEN [returned |-> <<>>, err |-> got.err]
        ELSE IF got.parser = None
        THEN [returned |-> <<[NewLintResult(file_path)
                                 EXCEPT !.parse_errors = <<"no parser">>]>>,
              err |-> None]
        ELSE LET Returned(out) == [returned |-> out.returned, err |-> out.err]
             IN  Returned(lint(rls, parse_file(got.parser, file_path)))

\* the loop of RuleEngine.lint_files: acc.results is the report being built,
\* acc.parsed the paths handed to lint_file, acc.err the exception that
\* ended the loop
RECURSIVE FilesLoop(_, _, _, _, _, _)
FilesLoop(rls, cfg, file_paths, tree_sitter, i, acc) ==
    IF i > Len(file_paths) THEN acc
    ELSE IF _should_ignore(cfg, file_paths[i])
         THEN FilesLoop(rls, cfg, file_paths, tree_sitter, i + 1, acc)
    ELSE LET tried == [acc EXCEPT !.parsed = Append(@, file_paths[i])]
             Step(one) ==
                 IF one.err # None THEN [tried EXCEPT !.err = one.err]
                 ELSE FilesLoop(rls, cfg, file_paths, tree_sitter, i + 1,
                                [tried EXCEPT
                                    !.results = add_result(@, one.returned[1])])
         IN  Step(lint_file(rls, file_paths[i], tree_sitter))

\* RuleEngine.lint_files: the report returned (none when an exception
\* ended the loop), the paths handed to lint_file, the exception raised
lint_files(rls, cfg, file_paths, tree_sitter) ==
    LET Returned(acc) ==
            [returned |-> IF acc.err = None THEN <<acc.results>> ELSE <<>>,
             parsed |-> acc.parsed, err |-> acc.err]
    IN  Returned(FilesLoop(rls, cfg, file_paths, tree_sitter, 1,
                           [results |-> <<>>, parsed |-> <<>>, err |-> None]))

\* lint_files(file_paths)
LintFiles(file_paths, tree_sitter) ==
    \E out \in {lint_files(rules, config, file_paths, tree_sitter)} :
        /\ report' = IF out.returned = <<>> THEN <<>> ELSE out.returned[1]
        /\ run' = [NoRun EXCEPT !.op = "lint_files", !.paths = file_paths,
                                !.parsed = out.parsed, !.err = out.err]
        /\ UNCHANGED <<registry, rules, config, last, calls, result, doc, unit,
                       outcomes, kept>>

\* the documents load_config reads in the lint_files runs
FilesDocNames == {"ignore-md", "ignore-two"}

\* the rule classes registered in the lint_files runs
FilesClassNames == {"MaxFileLinesRule", "PluginRuleV2"}

NextFiles ==
    \/ calls < MaxSetup /\ \E c \in FilesClassNames : RegisterRule(c)
    \/ calls < MaxSetup /\ \E n \in FilesDocNames : LoadConfig(n)
    \/ \E q \in SeqsUpTo(FilePaths, MaxFiles), ts \in BOOLEAN : LintFiles(q, ts)

SpecFiles == Init /\ [][NextFiles]_vars

(***************************************************************************)
(* check on its own: one rule instance, one parse result, one call of the  *)
(* rule's check and one lint call of an engine holding only that instance. *)
(***************************************************************************)
UnitRules ==
    {NewRule(c, sv, o) : c \in ClassNames, sv \in {"WARN", "ERROR"},
                         o \in {NoOptions, Options(MaxOpt(6))}}

UnitNodes ==
    {Node(t, "n", c) : t \in {"function", "method", "class"}, c \in {0, 6, 11}}

UnitLanguages == {python, Python, javascript, <<"p", "y">>}

UnitParseResults ==
    {[file_path |-> a_py, language |-> l, nodes |-> q, total_lines |-> 600,
      errors |-> <<>>] : l \in UnitLanguages, q \in SeqsUpTo(UnitNodes, MaxNodes)}

InitCheck ==
    /\ unit \in {<<[rule |-> r, pr |-> pr, out |-> <<>>, linted |-> <<>>]>> :
                    r \in UnitRules, pr \in UnitParseResults}
    /\ registry = <<>>
    /\ rules = <<>>
    /\ config = <<>>
    /\ last = NoCall
    /\ calls = 0
    /\ result = <<>>
    /\ doc = NoDoc
    /\ report = <<>>
    /\ run = NoRun
    /\ outcomes = <<>>
    /\ kept = NoKept

\* rule.check(parse_result), and engine.lint(parse_result) with the rule as
\* the only instance held
Check ==
    /\ unit[1].out = <<>>
    /\ unit' = <<[unit[1] EXCEPT
                    !.out = <<check(unit[1].rule, unit[1].pr)>>,
                    !.linted = <<lint(<<[k |-> Class(unit[1].rule.cls).rule_id,
                                         v |-> unit[1].rule]>>, unit[1].pr)>>]>>
    /\ UNCHANGED <<registry, rules, config, last, calls, result, doc, report, run,
                   outcomes, kept>>

NextCheck == Check

SpecCheck == InitCheck /\ [][NextCheck]_vars

(***************************************************************************)
(* check of the built-in rules on its own: the parameter-count rule on     *)
(* nodes with parameter lists, the three whole-file rules on short node    *)
(* lists and line counts, the function-naming rule on names.               *)
(***************************************************************************)
ParamNames == {"self", "cls", "Self", "a"}

\* seven parameters led by self, and six ended by cls
LongParams == {<<"self", "a", "b", "c", "d", "e", "f">>,
               <<"a", "b", "c", "d", "e", "cls">>}

ParamNodes ==
    {[Node(t, <<"f">>, 1) EXCEPT !.params = ps] :
        t \in {"function", "method", "class"},
        ps \in SeqsUpTo(ParamNames, MaxParams) \cup LongParams}

ParamUnits ==
    {[rule |-> NewRule("MaxParamsRule", sv, o),
      pr |-> [file_path |-> a_py, language |-> python, nodes |-> q,
              total_lines |-> 10, errors |-> <<>>]] :
        sv \in {"WARN", "ERROR"},
        o \in {NoOptions, Options(MaxOpt(0)), Options(MaxOpt(1))},
        q \in {<<n>> : n \in ParamNodes}
                \cup {<<Node("method", <<"g">>, 1), n>> : n \in ParamNodes}}

StructNodes ==
    {Node("function", <<"f">>, 1), Node("function", <<"g">>, 1),
     Node("class", <<"K">>, 0), Node("class", <<"L">>, 0),
     Node("method", <<"m">>, 1)}

\* six classes, a method and twenty-one functions
ManyNodes ==
    [k \in 1..28 |-> IF k <= 6 THEN Node("class", <<"K">>, 0)
                     ELSE IF k = 7 THEN Node("method", <<"m">>, 1)
                     ELSE Node("function", <<"f">>, 1)]

StructUnits ==
    {[rule |-> NewRule(c, sv, o),
      pr |-> [file_path |-> a_py, language |-> python, nodes |-> q,
              total_lines |-> n, errors |-> <<>>]] :
        c \in {"MaxFileLinesRule", "MaxClassesPerFileRule", "MaxFunctionsPerFileRule"},
        sv \in {"WARN", "ERROR"},
        o \in {NoOptions, Options(MaxOpt(0)), Options(MaxOpt(1))},
        q \in SeqsUpTo(StructNodes, MaxNodes)
                \cup {ManyNodes, SubSeq(ManyNodes, 2, 27)},
        n \in {0, 1, 2, 500, 501}}

FunctionNames ==
    {<<"m", "y", "F", "u", "n", "c", "t", "i", "o", "n">>,
     <<"m", "y", "_", "f", "u", "n", "c", "t", "i", "o", "n">>,
     <<"_", "_", "i", "n", "i", "t", "_", "_">>,
     <<"_", "_", "I", "n", "i", "t", "_", "_">>,
     <<"_", "_", "$", "_", "_">>,
     <<"_", "_", "_", "_">>, <<"_", "_", "_">>,
     <<"_", "_", "x">>, <<"X", "_", "_">>,
     <<"M", "y", "F", "u", "n", "c">>, <<"f", "2">>, <<"2", "f">>,
     <<"_", "p">>, <<"a", "$">>, <<>>}

NamingUnits ==
    {[rule |-> NewRule("FunctionNamingRule", sv, o),
      pr |-> [file_path |-> a_py, language |-> python,
              nodes |-> <<Node(t, name, 1)>>,
              total_lines |-> 10, errors |-> <<>>]] :
        sv \in {"WARN", "ERROR"},
        o \in {NoOptions} \cup {Options(StyleOpt(st)) :
                                   st \in {"snake_case", "camelCase", "PascalCase",
                                           "kebab-case"}},
        t \in {"function", "method", "class"},
        name \in FunctionNames}

InitBuiltin ==
    /\ unit \in {<<[rule |-> u.rule, pr |-> u.pr, out |-> <<>>, linted |-> <<>>]>> :
                    u \in ParamUnits \cup StructUnits \cup NamingUnits}
    /\ registry = <<>>
    /\ rules = <<>>
    /\ config = <<>>
    /\ last = NoCall
    /\ calls = 0
    /\ result = <<>>
    /\ doc = NoDoc
    /\ report = <<>>
    /\ run = NoRun
    /\ outcomes = <<>>
    /\ kept = NoKept

NextBuiltin == Check

SpecBuiltin == InitBuiltin /\ [][NextBuiltin]_vars

(***************************************************************************)
(* The engine with the built-in rules registered in one call, then         *)
(* configured by presets and by configure_rule.                            *)
(***************************************************************************)
\* register_builtin_rules()
RegisterBuiltinRules ==
    /\ calls < MaxCalls
    /\ registry' = register_builtin_rules(registry)
    /\ last' = [last EXCEPT !.reg = TRUE]
    /\ calls' = calls + 1
    /\ UNCHANGED <<rules, config, result, doc, report, run, unit, outcomes, kept>>

BuiltinsOptionArgs ==
    {NoOptions, Options(EmptyDict), Options(MaxOpt(2)), Options(Dict1("extra", 1))}

NextBuiltins ==
    \/ RegisterBuiltinRules
    \/ \E c \in {"PluginRule", "MaxFileLinesRule"} : RegisterRule(c)
    \/ \E n \in PresetArgs : UsePreset(n)
    \/ \E id \in {IdMaxParams, IdClassNaming, IdPlugin}, s \in SeverityArgs,
          o \in BuiltinsOptionArgs :
          ConfigureRule(id, s, o)

SpecBuiltins == Init /\ [][NextBuiltins]_vars

(***************************************************************************)
(* The engine with one built-in rule and the two add-on rules: registering *)
(* before and after configuring, bulk configurations, configure_rule, lint.*)
(***************************************************************************)
SetupClassNames == {"MaxFileLinesRule", "PluginRule", "PluginRuleV2"}

NextSetup ==
    \/ \E c \in SetupClassNames : RegisterRule(c)
    \/ \E n \in {"strict", "minimal"} : UsePreset(n)
    \/ \E n \in EngineDocNames : LoadConfig(n)
    \/ \E id \in {IdMaxFileLines, IdPlugin}, s \in SeverityArgs, o \in OptionArgs :
          ConfigureRule(id, s, o)
    \/ \E pr \in ParseResults : Lint(pr)

SpecSetup == Init /\ [][NextSetup]_vars

(***************************************************************************)
(* parse_severity on its own: one value, one call.                         *)
(***************************************************************************)
\* every way of writing a text in upper- and lower-case letters
RECURSIVE Spellings(_)
Spellings(s) ==
    IF s = <<>> THEN {<<>>}
    ELSE {<<c>> \o rest : c \in {Head(s), LowerChar(Head(s))},
                          rest \in Spellings(Tail(s))}

SeverityValues ==
    {RawStr(s) : s \in Spellings(<<"O", "F", "F">>) \cup Spellings(<<"W", "A", "R", "N">>)
                          \cup Spellings(<<"E", "R", "R", "O", "R">>)
                          \cup {<<>>, <<"f", "a", "t", "a", "l">>,
                                <<"w", "a", "r", "n", "i", "n", "g">>}}
        \cup {RawInt(n) : n \in -1..3}
        \cup {RawSev(e) : e \in Severities}
        \cup {RawOther}

InitSeverity ==
    /\ unit \in {<<[value |-> v, out |-> <<>>]>> : v \in SeverityValues}
    /\ registry = <<>>
    /\ rules = <<>>
    /\ config = <<>>
    /\ last = NoCall
    /\ calls = 0
    /\ result = <<>>
    /\ doc = NoDoc
    /\ report = <<>>
    /\ run = NoRun
    /\ outcomes = <<>>
    /\ kept = NoKept

\* RuleConfig().parse_severity(value)
ParseSeverity ==
    /\ unit[1].out = <<>>
    /\ unit' = <<[unit[1] EXCEPT !.out = <<parse_severity(unit[1].value)>>]>>
    /\ UNCHANGED <<registry, rules, config, last, calls, result, doc, report, run,
                   outcomes, kept>>

NextSeverity == ParseSeverity

SpecSeverity == InitSeverity /\ [][NextSeverity]_vars

(***************************************************************************)
(* Properties.                                                             *)
(***************************************************************************)
ApplyOps == {"use_preset", "load_config"}

RegisteredIds == {registry[i].k : i \in 1..Len(registry)}

InstanceIds == {rules[i].k : i \in 1..Len(rules)}

\* C1: no instance held in the engine's instance set has severity OFF:
\* every held instance has severity WARN or ERROR.
C1_NoOffInstance ==
    \A i \in 1..Len(rules) : rules[i].v.severity \in {"WARN", "ERROR"}

C3_DisabledRuleAbsentAndSilent ==
    (last.op = "configure_rule" /\ last.sev = "OFF" /\ last.err = None) =>
        /\ get_rule(rules, last.arg) = <<>>
        /\ result # <<>> =>
              \A i \in 1..Len(result[1].violations) :
                  result[1].violations[i].rule_id # last.arg

\* a rule was disabled, then a file was linted and other rules reported
C3_Witness ==
    /\ last.op = "configure_rule" /\ last.sev = "OFF" /\ last.err = None
    /\ result # <<>>
    /\ Len(result[1].violations) > 0
    /\ Len(rules) > 0

\* C4: a bulk configuration call that repeats the configuration call before
\* it, on an unchanged registry, leaves the instance set as it was: same ids,
\* same order, same severity and options.
C4_ApplyTwiceSame ==
    [][(calls' = calls + 1 /\ last'.op \in ApplyOps /\ ~last'.reg /\ last'.again)
          => rules' = rules]_vars

\* the same configuration was applied twice in a row and instances exist
C4_Witness ==
    /\ last.op \in ApplyOps /\ ~last.reg /\ last.again
    /\ Len(rules) >= 2

\* position of a rule id in the registry
RegistryIndex(id) == OdIndex(registry, id)

\* C5: once a bulk configuration has been applied, the violations of every
\* lint result are grouped by rule in the order the rules were registered.
C5_LintFollowsRegistryOrder ==
    (config # <<>> /\ result # <<>>) =>
        \A i, j \in 1..Len(result[1].violations) :
            i < j => RegistryIndex(result[1].violations[i].rule_id)
                        <= RegistryIndex(result[1].violations[j].rule_id)

\* the single rule id a document overrides, when it overrides exactly one
OverriddenId == CHOOSE id \in DOMAIN doc.rules : TRUE

ExtendsRecommendedWithOneOverride ==
    /\ ExtendsOf(doc) = <<"recommended">>
    /\ Cardinality(DOMAIN doc.rules) = 1

\* C6: for a document {extends: ["recommended"], rules: {R: override}} the
\* resolved configuration maps R to the parsed override alone (its severity,
\* its options, no option key of the recommended entry) and every other rule
\* id to the recommended preset's record.
C6_OverrideReplacesWholesale ==
    (config # <<>> /\ ExtendsRecommendedWithOneOverride) =>
        LET R == OverriddenId
            parsed == _parse_rule_config(doc.rules[R])
        IN  /\ DOMAIN config[1].rules = BuiltinIds \cup {R}
            /\ config[1].rules[R].severity = parsed.severity
            /\ config[1].rules[R].options = parsed.options
            /\ \A id \in BuiltinIds \ {R} :
                  config[1].rules[id] = _get_recommended_config.rules[id]

\* the override of a rule of the preset gives no "max" although the
\* recommended entry has one
C6_Witness ==
    /\ config # <<>>
    /\ ExtendsRecommendedWithOneOverride
    /\ OverriddenId = IdMaxComplexity
    /\ "max" \notin DOMAIN config[1].rules[IdMaxComplexity].options
    /\ "max" \in DOMAIN _get_recommended_config.rules[IdMaxComplexity].options

\* the places of the extends list whose preset defines the rule id
Defining(id) ==
    {i \in 1..Len(ExtendsOf(doc)) : id \in DOMAIN _load_preset(ExtendsOf(doc)[i]).rules}

Last(S) == CHOOSE i \in S : \A j \in S : j <= i

\* C7: extended presets are merged left to right: a rule id the document
\* does not override itself resolves to the record of the last listed preset
\* that defines it, and is absent when no listed preset defines it.
C7_ExtendsLeftToRight ==
    config # <<>> =>
        \A id \in BuiltinIds \ DOMAIN doc.rules :
            IF Defining(id) = {} THEN id \notin DOMAIN config[1].rules
            ELSE /\ id \in DOMAIN config[1].rules
                 /\ config[1].rules[id]
                       = _load_preset(ExtendsOf(doc)[Last(Defining(id))]).rules[id]

\* two listed presets define max-complexity differently, and max-params comes
\* from the earlier one alone
C7_Witness ==
    /\ config # <<>>
    /\ ExtendsOf(doc) = <<"strict", "minimal">>
    /\ config[1].rules[IdMaxComplexity] = _get_minimal_config.rules[IdMaxComplexity]
    /\ config[1].rules[IdMaxParams] = _get_strict_config.rules[IdMaxParams]

\* C8: configure_rule on an id that is not registered raises ValueError and
\* leaves the instance set, the registry and the stored configuration as
\* they were.
C8_UnknownIdFailsUnchanged ==
    [][(calls' = calls + 1 /\ last'.op = "configure_rule" /\ ~last'.reg
            /\ ~OdHas(registry, last'.arg))
          => /\ last'.err = "ValueError"
             /\ rules' = rules
             /\ registry' = registry
             /\ config' = config]_vars

\* a configure_rule call failed on an engine that holds instances
C8_Witness ==
    /\ last.op = "configure_rule" /\ ~last.reg
    /\ last.err = "ValueError"
    /\ ~OdHas(registry, last.arg)
    /\ Len(rules) > 0
    /\ config # <<>>

\* C9: every id with an instance is registered, and a bulk configuration
\* raises only for the severity of a registered rule, never because it names
\* an id that is not registered.
C9_UnknownIdsSkipped ==
    /\ InstanceIds \subseteq RegisteredIds
    /\ (last.op \in ApplyOps /\ ~last.reg /\ last.err # None) =>
          \E id \in RegisteredIds \cap DOMAIN config[1].rules :
              IsError(parse_severity(config[1].rules[id].severity))

\* a configuration naming unregistered ids was applied without error
C9_Witness ==
    /\ last.op \in ApplyOps /\ ~last.reg /\ last.err = None
    /\ IdUnknown \in DOMAIN config[1].rules
    /\ (DOMAIN config[1].rules) \ RegisteredIds # {}
    /\ Len(rules) > 0

CountSeverity(violations, s) ==
    Cardinality({i \in 1..Len(violations) : violations[i].severity = s})

\* C10: error_count is the number of contained violations of severity ERROR
\* and warning_count the number of severity WARN, after every add_violation.
C10_CountersTally ==
    result # <<>> =>
        /\ result[1].error_count = CountSeverity(result[1].violations, "ERROR")
        /\ result[1].warning_count = CountSeverity(result[1].violations, "WARN")

\* a result holding a violation of each severity
C10_Witness ==
    /\ result # <<>>
    /\ \A s \in Severities : CountSeverity(result[1].violations, s) > 0
    /\ result[1].error_count > 0

\* one unit per counted thing: the pairs <<i, k>> with k in 1..n(i)
Units(results, n(_)) ==
    UNION {{<<i, k>> : k \in 1..n(i)} : i \in 1..Len(results)}

\* C11: in a report built by add_result calls, total_errors and
\* total_warnings are the sums of the results' error and warning counters,
\* total_violations the sum of the lengths of their violation lists,
\* total_files the number of results and files_with_issues the number of
\* results with at least one violation or parse error, so that
\* files_with_issues <= total_files.
C11_ReportTotals ==
    /\ total_errors(report)
           = Cardinality(Units(report, LAMBDA i : report[i].error_count))
    /\ total_warnings(report)
           = Cardinality(Units(report, LAMBDA i : report[i].warning_count))
    /\ total_violations(report)
           = Cardinality(Units(report, LAMBDA i : Len(report[i].violations)))
    /\ total_files(report) = Cardinality(DOMAIN report)
    /\ files_with_issues(report)
           = Cardinality({i \in DOMAIN report :
                             \/ Len(report[i].violations) >= 1
                             \/ Len(report[i].parse_errors) >= 1})
    /\ files_with_issues(report) <= total_files(report)

\* a report of two results: one whose only issue is a parse error, one with
\* errors and warnings to add up
C11_Witness ==
    /\ Len(report) = 2
    /\ \E i \in DOMAIN report :
          report[i].violations = <<>> /\ report[i].parse_errors # <<>>
    /\ \E i \in DOMAIN report :
          report[i].error_count > 0 /\ report[i].warning_count > 0
    /\ files_with_issues(report) = 2

\* two texts that differ at most in the case of their letters
SameIgnoringCase(a, b) ==
    /\ Len(a) = Len(b)
    /\ \A i \in 1..Len(a) :
          \/ a[i] = b[i]
          \/ \E k \in 1..Len(LowerLetters) :
                {a[i], b[i]} = {LowerLetters[k], UpperLetters[k]}

\* the rule's class declares no language, or declares this one
Declares(rule, language) ==
    LET langs == Class(rule.cls).supported_languages
    IN  \/ langs = <<>>
        \/ \E i \in 1..Len(langs) : SameIgnoringCase(langs[i], language)

\* C12: lint invokes check only on held instances whose severity is not OFF
\* and whose class supports the outcome's language; an instance of severity
\* OFF is never invoked, however the instance set came about.
C12_OnlyEnabledSupportingChecked ==
    run.op = "lint" =>
        \A i \in 1..Len(run.invoked) :
            /\ run.invoked[i].severity # "OFF"
            /\ Declares(run.invoked[i], run.language)
            /\ \E j \in 1..Len(rules) : rules[j].v = run.invoked[i]

\* a lint call that invoked a check while the instance set held an instance
\* of severity OFF supporting the outcome's language
C12_Witness ==
    /\ run.op = "lint"
    /\ Len(run.invoked) >= 1
    /\ \E j \in 1..Len(rules) :
          rules[j].v.severity = "OFF" /\ Declares(rules[j].v, run.language)

\* C14: every violation of a LintResult returned by lint carries the
\* severity of the instance held for its rule id, which is WARN or ERROR,
\* so that error_count + warning_count is the number of violations.
C14_ViolationsCarryInstanceSeverity ==
    (run.op = "lint" /\ result # <<>>) =>
        /\ \A i \in 1..Len(result[1].violations) :
              LET v == result[1].violations[i]
              IN  /\ OdHas(rules, v.rule_id)
                  /\ v.severity = OdGet(rules, v.rule_id).severity
                  /\ v.severity \in {"WARN", "ERROR"}
        /\ result[1].error_count + result[1].warning_count
               = Len(result[1].violations)

\* a result with a WARN and an ERROR violation, one of them from an instance
\* whose severity is not its class's default
C14_Witness ==
    /\ run.op = "lint" /\ result # <<>>
    /\ result[1].error_count > 0 /\ result[1].warning_count > 0
    /\ \E i \in 1..Len(result[1].violations), j \in 1..Len(rules) :
          /\ rules[j].k = result[1].violations[i].rule_id
          /\ rules[j].v.severity # Class(rules[j].v.cls).default_severity

\* the positions in run.invoked of the instances whose check raises on the
\* outcome linted
Raising == {i \in 1..Len(run.invoked) : check(run.invoked[i], Outcomes[run.path]).err # None}

\* C17: an exception raised by a rule's check reaches the caller of lint:
\* the call returns no LintResult, neither empty nor partial, and the loop
\* stops at the raising check; without such an exception lint returns.
C17_CheckExceptionPropagates ==
    run.op = "lint" =>
        IF Raising = {}
        THEN run.err = None /\ result # <<>>
        ELSE /\ Raising = {Len(run.invoked)}
             /\ run.err = check(run.invoked[Len(run.invoked)], Outcomes[run.path]).err
             /\ result = <<>>

\* a lint call whose second check raised after the first returned violations
C17_Witness ==
    /\ run.op = "lint"
    /\ run.err = "ZeroDivisionError"
    /\ Len(run.invoked) = 2
    /\ check(run.invoked[1], Outcomes[run.path]).violations # <<>>
    /\ result = <<>>

\* C13: lint leaves the registry, the instance set and the stored
\* configuration as they were and writes to no outcome: the result's
\* parse_errors equals the outcome's errors without being the same list, so
\* that what the caller appends to it stays out of the outcome; hence every
\* lint call on an outcome returns (or raises) what the first one made since
\* the latest configuration call did, whatever was linted in between.
C13_LintIsPure ==
    /\ [](outcomes = <<>>)
    /\ [](\A i \in 1..Len(kept) :
            /\ kept[i].v.latest = kept[i].v.first
            /\ kept[i].v.latest[1].returned # <<>> =>
                  kept[i].v.latest[1].returned[1].parse_errors
                      = Outcomes[kept[i].k].errors)
    /\ [][calls' = calls => UNCHANGED <<registry, rules, config>>]_vars

\* a.py linted, then b.js, then a.py again, and the caller appended a
\* message to the LintResult the latest call returned
C13_Witness ==
    /\ Len(kept) = 2
    /\ kept[1].k = a_py /\ kept[1].v.n = 2
    /\ kept[2].k = b_js
    /\ run.path = a_py
    /\ result # <<>> /\ Len(result[1].violations) >= 1
    /\ Len(result[1].parse_errors) = 1

\* the path matches one of the ignore patterns of the stored configuration
Ignored(file_path) ==
    /\ config # <<>>
    /\ \E i \in 1..Len(config[1].ignore_patterns) :
          fnmatch(file_path, config[1].ignore_patterns[i])

NotIgnored(file_paths) == SelectSeq(file_paths, LAMBDA f : ~Ignored(f))

\* C15: lint_files hands no path that matches a configured ignore pattern
\* to a parser, and the report it returns holds exactly one result per
\* input path that matches none, in input order, so that total_files is the
\* number of such paths.
C15_IgnoredPathsSkipped ==
    run.op = "lint_files" =>
        /\ \A i \in 1..Len(run.parsed) : ~Ignored(run.parsed[i])
        /\ run.err = None =>
              /\ [i \in 1..Len(report) |-> report[i].file_path] = NotIgnored(run.paths)
              /\ total_files(report)
                     = Cardinality({i \in 1..Len(run.paths) : ~Ignored(run.paths[i])})

\* a returned report for two paths of which the first matches the second
\* of two ignore patterns and the other none, its result holding a violation
C15_Witness ==
    /\ run.op = "lint_files" /\ run.err = None
    /\ Len(run.paths) = 2
    /\ config # <<>>
    /\ Len(config[1].ignore_patterns) = 2
    /\ fnmatch(run.paths[1], config[1].ignore_patterns[2])
    /\ ~Ignored(run.paths[2])
    /\ total_files(report) = 1
    /\ total_violations(report) >= 1

\* C16: a parser failure for one file of a batch, be it a parse error, a
\* missing parser or an exception raised by the parser adapter, never ends
\* lint_files: unless a rule's check raised, the call returns a report with
\* a result for every path that is not ignored.
C16_ParserFailureNeverAborts ==
    (run.op = "lint_files" /\ run.err # "ZeroDivisionError") =>
        /\ run.err = None
        /\ Len(report) = Len(NotIgnored(run.paths))

RECURSIVE Flatten(_)
Flatten(qq) == IF qq = <<>> THEN <<>> ELSE Head(qq) \o Flatten(Tail(qq))

\* the positions of the nodes whose kind is among the rule's target kinds,
\* all positions when the rule names no kind
Applicable(rule, nodes) ==
    {i \in 1..Len(nodes) :
        \/ Class(rule.cls).target_node_types = {}
        \/ nodes[i].node_type \in Class(rule.cls).target_node_types}

C19_LanguageSupport ==
    unit # <<>> =>
        LET rule == unit[1].rule
            pr == unit[1].pr
        IN  /\ supports_language(rule, pr.language) <=> Declares(rule, pr.language)
            /\ (unit[1].out # <<>> /\ ~Declares(rule, pr.language)) =>
                  /\ unit[1].linted[1].err = None
                  /\ unit[1].linted[1].invoked = <<>>
                  /\ unit[1].linted[1].returned # <<>>
                  /\ unit[1].linted[1].returned[1].violations = <<>>
                  /\ Class(rule.cls).base = "NodeRule" =>
                        unit[1].out[1] = Checked(<<>>)

\* a rule for Python whose check_node raises on the first node, linted on a
\* JavaScript outcome
C19_Witness ==
    /\ unit # <<>>
    /\ unit[1].out # <<>>
    /\ unit[1].rule.cls = "PluginRuleV2"
    /\ unit[1].pr.language = javascript
    /\ Len(unit[1].pr.nodes) = 2
    /\ unit[1].pr.nodes[1].complexity = 0
    /\ unit[1].linted[1].returned # <<>>

\* C20: max-complexity returns, in node order, exactly one violation for
\* each function or method node whose complexity exceeds options.max and
\* none for any other node; the violation's metadata holds the node's
\* complexity as actual and options.max as max; max is 10 unless configured.
C20_MaxComplexity ==
    /\ NewRule("MaxComplexityRule", None, NoOptions).options["max"] = 10
    /\ (unit # <<>> /\ unit[1].out # <<>> /\ unit[1].rule.cls = "MaxComplexityRule") =>
          LET rule == unit[1].rule
              pr == unit[1].pr
              over == SelectSeq(pr.nodes,
                                LAMBDA n : /\ n.node_type \in {"function", "method"}
                                           /\ n.complexity > rule.options["max"])
          IN  /\ unit[1].out[1].err = None
              /\ unit[1].out[1].violations
                    = [k \in 1..Len(over) |->
                          [rule_id |-> IdMaxComplexity, severity |-> rule.severity,
                           file_path |-> pr.file_path, node_name |-> over[k].name,
                           metadata |-> [m \in {"actual", "max"} |->
                                            IF m = "actual" THEN over[k].complexity
                                            ELSE rule.options["max"]]]]

\* a function whose complexity equals the configured maximum, followed by a
\* method above it: one violation, for the method
C20_Witness ==
    /\ unit # <<>>
    /\ unit[1].out # <<>>
    /\ unit[1].rule.cls = "MaxComplexityRule"
    /\ unit[1].rule.options["max"] = 6
    /\ unit[1].pr.nodes = <<Node("function", "n", 6), Node("method", "n", 11)>>
    /\ Len(unit[1].out[1].violations) = 1
    /\ unit[1].out[1].violations[1].metadata["actual"] = 11

RECURSIVE WithoutSelfCls(_)
WithoutSelfCls(ps) ==
    IF ps = <<>> THEN <<>>
    ELSE IF Head(ps) = "self" \/ Head(ps) = "cls" THEN WithoutSelfCls(Tail(ps))
    ELSE <<Head(ps)>> \o WithoutSelfCls(Tail(ps))

\* C21: max-params returns, in node order, exactly one violation for each
\* function or method node that has more than options.max parameters left
\* once every 'self' and 'cls' (so written, wherever it stands) is taken out
\* of the list, and none for any other node; the violation's metadata holds
\* the remaining parameters in their order as params and their number as
\* actual; max is 5 unless configured.
C21_MaxParams ==
    /\ NewRule("MaxParamsRule", None, NoOptions).options["max"] = 5
    /\ (unit # <<>> /\ unit[1].out # <<>> /\ unit[1].rule.cls = "MaxParamsRule") =>
          LET rule == unit[1].rule
              pr == unit[1].pr
              over == SelectSeq(pr.nodes,
                                LAMBDA n : /\ n.node_type \in {"function", "method"}
                                           /\ Len(WithoutSelfCls(n.params))
                                                 > rule.options["max"])
              violations == unit[1].out[1].violations
          IN  /\ unit[1].out[1].err = None
              /\ Len(violations) = Len(over)
              /\ \A k \in 1..Len(over) :
                    /\ violations[k].rule_id = IdMaxParams
                    /\ violations[k].node_name = over[k].name
                    /\ violations[k].metadata["params"] = WithoutSelfCls(over[k].params)
                    /\ violations[k].metadata["actual"]
                          = Len(WithoutSelfCls(over[k].params))
                    /\ violations[k].metadata["max"] = rule.options["max"]

\* the default maximum and seven parameters led by self: one violation
\* naming the six others
C21_Witness ==
    /\ unit # <<>>
    /\ unit[1].out # <<>>
    /\ unit[1].rule = NewRule("MaxParamsRule", "WARN", NoOptions)
    /\ Len(unit[1].pr.nodes) = 1
    /\ unit[1].pr.nodes[1].params = <<"self", "a", "b", "c", "d", "e", "f">>
    /\ Len(unit[1].out[1].violations) = 1
    /\ unit[1].out[1].violations[1].metadata["params"] = <<"a", "b", "c", "d", "e", "f">>
    /\ unit[1].out[1].violations[1].metadata["actual"] = 6

\* the positions of the nodes of one kind
OfKind(nodes, kind) == {i \in 1..Len(nodes) : nodes[i].node_type = kind}

\* q lists the names of the nodes at the positions ps, in node order
ListsNames(q, nodes, ps) ==
    /\ Len(q) = Cardinality(ps)
    /\ \A i \in ps : q[Cardinality({j \in ps : j <= i})] = nodes[i].name

\* C22: each whole-file rule returns at most one violation for an outcome:
\* max-file-lines one exactly when total_lines > options.max;
\* max-classes-per-file one exactly when the outcome has more than
\* options.max class nodes, max-functions-per-file one exactly when it has
\* more than options.max function nodes, method nodes not being counted;
\* the metadata of these two names the counted nodes in node order and holds
\* their number as actual.
C22_StructuralRules ==
    (/\ unit # <<>>
     /\ unit[1].out # <<>>
     /\ unit[1].rule.cls \in {"MaxFileLinesRule", "MaxClassesPerFileRule",
                              "MaxFunctionsPerFileRule"}) =>
        LET rule == unit[1].rule
            pr == unit[1].pr
            max == rule.options["max"]
            violations == unit[1].out[1].violations
            classes == OfKind(pr.nodes, "class")
            functions == OfKind(pr.nodes, "function")
        IN  /\ unit[1].out[1].err = None
            /\ Len(violations) <= 1
            /\ rule.cls = "MaxFileLinesRule" =>
                  (Len(violations) = 1 <=> pr.total_lines > max)
            /\ rule.cls = "MaxClassesPerFileRule" =>
                  /\ Len(violations) = 1 <=> Cardinality(classes) > max
                  /\ Len(violations) = 1 =>
                        /\ violations[1].metadata["actual"] = Cardinality(classes)
                        /\ ListsNames(violations[1].metadata["classes"],
                                      pr.nodes, classes)
            /\ rule.cls = "MaxFunctionsPerFileRule" =>
                  /\ Len(violations) = 1 <=> Cardinality(functions) > max
                  /\ Len(violations) = 1 =>
                        /\ violations[1].metadata["actual"] = Cardinality(functions)
                        /\ ListsNames(violations[1].metadata["functions"],
                                      pr.nodes, functions)

\* a function and a method under a maximum of one function: no violation
C22_Witness ==
    /\ unit # <<>>
    /\ unit[1].out # <<>>
    /\ unit[1].rule.cls = "MaxFunctionsPerFileRule"
    /\ unit[1].rule.options["max"] = 1
    /\ Len(unit[1].pr.nodes) = 2
    /\ unit[1].pr.nodes[1].node_type = "function"
    /\ unit[1].pr.nodes[2].node_type = "method"
    /\ unit[1].out[1].violations = <<>>

\* the name begins and ends with two underscores of its own
Dunder(name) ==
    /\ Len(name) >= 4
    /\ \A i \in {1, 2, Len(name) - 1, Len(name)} : name[i] = "_"

\* the name is written in the style
InStyle(name, style) ==
    LET lower == {LowerLetters[k] : k \in 1..Len(LowerLetters)}
        upper == {UpperLetters[k] : k \in 1..Len(UpperLetters)}
        first == CASE style = "snake_case" -> lower \cup {"_"}
                   [] style = "camelCase" -> lower
                   [] style = "PascalCase" -> upper
        others == CASE style = "snake_case" -> lower \cup Digits \cup {"_"}
                    [] style = "camelCase" -> lower \cup upper \cup Digits
                    [] style = "PascalCase" -> lower \cup upper \cup Digits
    IN  /\ name # <<>>
        /\ name[1] \in first
        /\ \A i \in 2..Len(name) : name[i] \in others

\* C23: under each of the three styles function-naming reports a function
\* or method node exactly when its name neither begins and ends with '__'
\* nor is written in the selected style, and reports no other node; the
\* exemption comes first under every style, so that '__init__' is never
\* reported, while under snake_case 'myFunction' is reported and
\* 'my_function' is not.
C23_FunctionNaming ==
    (/\ unit # <<>>
     /\ unit[1].out # <<>>
     /\ unit[1].rule.cls = "FunctionNamingRule"
     /\ unit[1].rule.options["style"] \in {"snake_case", "camelCase", "PascalCase"}) =>
        LET rule == unit[1].rule
            node == unit[1].pr.nodes[1]
            style == rule.options["style"]
            violations == unit[1].out[1].violations
        IN  /\ unit[1].out[1].err = None
            /\ Len(violations) <= 1
            /\ Len(violations) = 1 <=>
                  /\ node.node_type \in {"function", "method"}
                  /\ ~Dunder(node.name)
                  /\ ~InStyle(node.name, style)
            /\ node.name = <<"_", "_", "i", "n", "i", "t", "_", "_">> => violations = <<>>
            /\ (style = "snake_case" /\ node.node_type = "function") =>
                  /\ node.name = <<"m", "y", "F", "u", "n", "c", "t", "i", "o", "n">>
                        => Len(violations) = 1
                  /\ node.name = <<"m", "y", "_", "f", "u", "n", "c", "t", "i", "o", "n">>
                        => violations = <<>>

\* the method '__init__' under PascalCase, which its name is not written
\* in: no violation
C23_Witness ==
    /\ unit # <<>>
    /\ unit[1].out # <<>>
    /\ unit[1].rule.cls = "FunctionNamingRule"
    /\ unit[1].rule.options["style"] = "PascalCase"
    /\ unit[1].pr.nodes[1].node_type = "method"
    /\ unit[1].pr.nodes[1].name = <<"_", "_", "i", "n", "i", "t", "_", "_">>
    /\ unit[1].out[1].violations = <<>>

\* the names and the ordinals of the severities (rules/base.py)
SeverityName(e) ==
    CASE e = "OFF" -> <<"O", "F", "F">>
      [] e = "WARN" -> <<"W", "A", "R", "N">>
      [] e = "ERROR" -> <<"E", "R", "R", "O", "R">>

SeverityOrdinal(e) == CASE e = "OFF" -> 0 [] e = "WARN" -> 1 [] e = "ERROR" -> 2

\* C24: for each of OFF, WARN and ERROR, parse_severity returns that
\* severity for its name written in any mix of upper- and lower-case
\* letters, for its ordinal (0, 1, 2) and for the severity itself.
C24_ParseSeverity ==
    (unit # <<>> /\ unit[1].out # <<>>) =>
        \A e \in Severities :
            LET value == unit[1].value
            IN  (\/ value.t = "str" /\ SameIgnoringCase(value.s, SeverityName(e))
                 \/ value.t = "int" /\ value.n = SeverityOrdinal(e)
                 \/ value.t = "sev" /\ value.e = e) =>
                    unit[1].out[1] = e

\* 'eRRoR' was parsed, to ERROR
C24_Witness ==
    /\ unit # <<>>
    /\ unit[1].out = <<"ERROR">>
    /\ unit[1].value.t = "str"
    /\ unit[1].value.s = <<"e", "R", "R", "o", "R">>

\* C25: right after a use_preset('strict') on an engine whose registry holds
\* the eight built-in rule ids and no other, every enabled instance has
\* severity ERROR, and there is one for each built-in rule.
C25_StrictAllError ==
    (/\ last.op = "use_preset"
     /\ last.arg = "strict"
     /\ ~last.reg
     /\ RegisteredIds = BuiltinIds) =>
        /\ InstanceIds = BuiltinIds
        /\ \A i \in 1..Len(rules) : is_enabled(rules[i].v) => rules[i].v.severity = "ERROR"

\* strict applied as the fourth call on an engine whose registry holds the
\* built-in rules: eight enabled instances
C25_Witness ==
    /\ last.op = "use_preset"
    /\ last.arg = "strict"
    /\ ~last.reg
    /\ calls = 4
    /\ RegisteredIds = BuiltinIds
    /\ Len(rules) = 8
    /\ \A i \in 1..Len(rules) : is_enabled(rules[i].v)

\* what a configuration makes of one registered class: no instance for an
\* entry that says off, an instance with the entry's severity and options
\* (over the class's default options) for any other entry, and an instance
\* with the class's defaults when the id has no entry
Made(cls, cfg, id) ==
    IF id \notin DOMAIN cfg.rules
    THEN <<[cls |-> cls, severity |-> Class(cls).default_severity,
            options |-> Class(cls).default_options]>>
    ELSE IF parse_severity(cfg.rules[id].severity) = "OFF" THEN <<>>
    ELSE <<[cls |-> cls, severity |-> parse_severity(cfg.rules[id].severity),
            options |-> [k \in DOMAIN Class(cls).default_options
                                  \cup DOMAIN cfg.rules[id].options |->
                            IF k \in DOMAIN cfg.rules[id].options
                            THEN cfg.rules[id].options[k]
                            ELSE Class(cls).default_options[k]]]>>

\* the instance set made of the first n entries of a registry
Rebuilt(reg, cfg, n) ==
    LET made == [i \in 1..n |-> [k |-> reg[i].k, v |-> Made(reg[i].v, cfg, reg[i].k)]]
        held == SelectSeq(made, LAMBDA e : e.v # <<>>)
    IN  [i \in 1..Len(held) |-> [k |-> held[i].k, v |-> held[i].v[1]]]

\* the registry entries a bulk configuration gets through: all of them, or
\* those before the first one whose configured severity cannot be parsed
Reached(reg, cfg) ==
    LET bad == {i \in 1..Len(reg) :
                   /\ reg[i].k \in DOMAIN cfg.rules
                   /\ IsError(parse_severity(cfg.rules[reg[i].k].severity))}
    IN  IF bad = {} THEN Len(reg)
        ELSE (CHOOSE i \in bad : \A j \in bad : i <= j) - 1

\* C26: right after a use_preset or load_config the instance set is the one
\* made, in registry order, of the registry and the configuration just
\* applied alone (up to the entry at which the call raised, if it did):
\* nothing that earlier configure_rule calls or earlier configurations
\* created, replaced or removed is left in it.
C26_BulkConfigurationRebuilds ==
    (last.op \in ApplyOps /\ ~last.reg) =>
        /\ last.err = None <=> Reached(registry, config[1]) = Len(registry)
        /\ rules = Rebuilt(registry, config[1], Reached(registry, config[1]))

\* a preset applied right after a configure_rule call that returned, on a
\* registry of two classes of which it names one
C26_Witness ==
    /\ last.op = "use_preset"
    /\ last.patched
    /\ ~last.reg
    /\ last.err = None
    /\ Len(registry) = 2
    /\ Len(rules) = 2
    /\ \E i \in 1..2 : registry[i].k \notin DOMAIN config[1].rules
    /\ \E i \in 1..2 : registry[i].k \in DOMAIN config[1].rules

\* C27: a configure_rule call on a registered id leaves the registry, the
\* stored configuration and the instance of every other id as they were; for
\* a severity other than off the entry of the id is an instance of the class
\* now registered, with the severity given (the class's default when none
\* is) and options that are the class's defaults overlaid with the options
\* given, whatever instance was held before; for off there is no entry.
C27_ConfigureRuleChangesOneEntry ==
    [][(calls' = calls + 1 /\ last'.op = "configure_rule" /\ ~last'.reg
            /\ last'.err = None) =>
          LET id == last'.arg
              cls == OdGet(registry, id)
          IN  /\ registry' = registry
              /\ config' = config
              /\ \A other \in (RegisteredIds \cup InstanceIds) \ {id} :
                    get_rule(rules', other) = get_rule(rules, other)
              /\ \A i \in 1..Len(rules') : rules'[i].k \in InstanceIds \cup {id}
              /\ last'.sev = "OFF" => get_rule(rules', id) = <<>>
              /\ last'.sev # "OFF" =>
                    \E o \in {OrEmpty(a) : a \in OptionArgs} :
                        get_rule(rules', id)
                            = <<[cls |-> cls,
                                 severity |-> IF last'.sev = None
                                              THEN Class(cls).default_severity
                                              ELSE last'.sev,
                                 options |-> [k \in DOMAIN Class(cls).default_options
                                                       \cup DOMAIN o |->
                                                 IF k \in DOMAIN o THEN o[k]
                                                 ELSE Class(cls).default_options[k]]]>>]_vars

\* configure_rule has just replaced the instance of one rule while another
\* rule holds an instance whose options are not its class's defaults
C27_Witness ==
    /\ last.op = "configure_rule"
    /\ last.err = None
    /\ ~last.reg
    /\ last.sev = "ERROR"
    /\ OdHas(rules, last.arg)
    /\ \E i \in 1..Len(rules) :
          /\ rules[i].k # last.arg
          /\ rules[i].v.options # Class(rules[i].v.cls).default_options

\* options holds every key of the defaults and of the configured options,
\* with the configured value where there is one and the default otherwise
Overlaid(options, defaults, configured) ==
    /\ DOMAIN options = DOMAIN defaults \cup DOMAIN configured
    /\ \A k \in DOMAIN configured : options[k] = configured[k]
    /\ \A k \in DOMAIN defaults \ DOMAIN configured : options[k] = defaults[k]

\* C28: the options of an instance are its class's default options overlaid
\* with the configured ones: after a bulk configuration with the options of
\* the id's entry (none when it has no entry), after a configure_rule call
\* that built an instance with the options given; a configure_rule call
\* without options gives the class's default options, whatever the options
\* the instance held under the preset applied before.
C28_OptionsOverlayDefaults ==
    /\ last.op \in ApplyOps =>
          \A i \in 1..Len(rules) :
              Overlaid(rules[i].v.options, Class(rules[i].v.cls).default_options,
                       IF rules[i].k \in DOMAIN config[1].rules
                       THEN config[1].rules[rules[i].k].options ELSE EmptyDict)
    /\ (last.op = "configure_rule" /\ last.err = None /\ last.sev # "OFF") =>
          LET rule == OdGet(rules, last.arg)
          IN  /\ Overlaid(rule.options, Class(rule.cls).default_options,
                          IF last.opts.some THEN last.opts.d ELSE EmptyDict)
              /\ ~last.opts.some => rule.options = Class(rule.cls).default_options

\* under the strict preset (max-params at most 4), configure_rule was called
\* for max-params with a severity and no options: the instance holds max 5
C28_Witness ==
    /\ last.op = "configure_rule"
    /\ last.err = None
    /\ last.arg = IdMaxParams
    /\ last.sev = "ERROR"
    /\ ~last.opts.some
    /\ config # <<>>
    /\ IdMaxParams \in DOMAIN config[1].rules
    /\ config[1].rules[IdMaxParams].options["max"] = 4
    /\ OdGet(rules, IdMaxParams).options["max"] = 5

\* C29: as long as no use_preset, load_config or configure_rule call was
\* made, whatever was registered, the instance set is empty, get_enabled_rules
\* is empty, and every lint call returns a result without violations, with
\* both counters at zero and with the parse errors of the outcome it was
\* given.
C29_NothingEnabledBeforeConfiguration ==
    last.op = "none" =>
        /\ rules = <<>>
        /\ get_enabled_rules(rules) = <<>>
        /\ run.op = "lint" =>
              /\ run.err = None
              /\ run.invoked = <<>>
              /\ result # <<>>
              /\ result[1].violations = <<>>
              /\ result[1].error_count = 0
              /\ result[1].warning_count = 0
              /\ \A pr \in ParseResults :
                    pr.file_path = run.path => result[1].parse_errors = pr.errors

\* two classes registered, no configuration call, and the outcome with a
\* parse error linted
C29_Witness ==
    /\ last.op = "none"
    /\ Len(registry) = 2
    /\ run.op = "lint"
    /\ result # <<>>
    /\ Len(result[1].parse_errors) = 1

\* C30: a register_rule call leaves the instance set as it was, so that a
\* newly registered id has no instance and a re-registered id keeps the
\* instance it had; the instance of an id appears, changes or disappears
\* only in a use_preset, load_config or, for that id, configure_rule call;
\* and lint invokes only instances of the instance set.
C30_RegisterMaterializesNothing ==
    /\ [][(calls' = calls + 1 /\ last'.reg) =>
             /\ rules' = rules
             /\ \A i \in 1..Len(registry') :
                   ~OdHas(registry, registry'[i].k) => ~OdHas(rules', registry'[i].k)]_vars
    /\ [][\A id \in BuiltinIds \cup {IdPlugin} :
             get_rule(rules', id) # get_rule(rules, id) =>
                 /\ calls' = calls + 1
                 /\ ~last'.reg
                 /\ \/ last'.op \in ApplyOps
                    \/ last'.op = "configure_rule" /\ last'.arg = id]_vars
    /\ [](run.op = "lint" =>
             \A k \in 1..Len(run.invoked) :
                 \E i \in 1..Len(rules) : rules[i].v = run.invoked[k])

\* after a bulk configuration a class was registered under an id the
\* configuration does not switch off, and a lint call returned: the id has
\* no instance
C30_Witness ==
    /\ last.op \in ApplyOps
    /\ last.err = None
    /\ last.reg
    /\ run.op = "lint"
    /\ result # <<>>
    /\ \E i \in 1..Len(registry) :
          /\ ~OdHas(rules, registry[i].k)
          /\ registry[i].k \notin DOMAIN config[1].rules

====
